---- MODULE Spec2Model ----
(***************************************************************************)
(* A model of the FicusDB trie engine (src/ficusdb/src/merkle) and of the  *)
(* DB facade (src/ficusdb/src/db.rs).                                      *)
(*                                                                         *)
(* Byte strings are sequences of naturals below 256.  A canonical RLP      *)
(* encoding is represented by its syntax tree (RLP is a bijection between  *)
(* trees and byte strings) and Keccak256 by an injective constructor.      *)
(* Rust indices are kept 0-based: element i of a Vec v is v[i + 1].        *)
(***************************************************************************)
EXTENDS Integers, Sequences, FiniteSets, TLC

VARIABLES
    dirty,       \* NodeStore.dirty : Vec<Option<Node>>
    clean,       \* NodeStore.clean : the clean-node cache, a set of [cptr, node]
    file,        \* NodeStore.backend : the node file, a sequence of [cptr, len, node]
    root_cptr,   \* Merkle.root_cptr
    root_dptr,   \* Merkle.root_dptr : <<>> is None, <<d>> is Some(d)
    panicked,    \* a panic unwound through a held lock of the store
    lru,         \* the build has feature "lru"
    max_size,    \* the budget of NodeStore.clean (the cache_size of NodeStore::new), in heap bytes
    mpt,         \* the reference MPT of the tests, fed the same operations
    live,        \* the key/value content the operations so far amount to
    ret,         \* what the last operation was and what it returned
    roots,       \* the committed roots, each with the content it was committed with
    count,       \* how many inserts, deletes, commits and other operations were performed
    batch,       \* the inserts, the removals and the deletes of missing keys since the last commit
    chash,       \* what hash() returned right after the last commit (or the opening of a root)
    budget,      \* how many operations of each kind a run may perform
    twin,        \* a second store and Merkle that receive the same operations with other extras
    db,          \* the DB around the Merkle: WriteBatch staging, value cache, root journal
    disk,        \* what of the node file and of the root journal is on the medium, and the
                 \* position of the commit in progress
    pcf,         \* a PageCachedFile and the flat array of the tests
    aha          \* an AHA and what the tests keep about its slots

vars == <<dirty, clean, file, root_cptr, root_dptr, panicked, lru, max_size, mpt, live, ret, roots, count,
          batch, chash, budget, twin, db, disk, pcf, aha>>

(***************************************************************************)
(* Bounds and inputs                                                       *)
(***************************************************************************)
MaxOps == 5

MaxHistOps == 4

MaxReads == 2
MaxTwinOps == 3
MaxDBOps == 3
MaxBatchOps == 4
MaxStepOps == 4
MaxAhaOps == 4
MaxFileOps == 3
MaxFileReads == 1
\* the highest offset written at or read from
MaxPtr == 3
MaxWideOps == 4
MaxWideReads == 1
MaxBigOps == 2
MaxBigReads == 2
\* the lengths of the values of other sizes
WideLen == 31
BigLen == 16384
\* a budget of the clean cache that the nodes of a run never fill
CacheAmple == 1073741824
MaxCacheOps == 3
MaxLoadOps == 4
MaxVersionOps == 4
MaxBranches == 2
MaxLockOps == 3
MaxLockReads == 2
MaxRootOps == 4
MaxRootReads == 3
MaxStateOps == 4
\* the pages of a PageCachedFile hold 2 ^ PAGE_BITS bytes
PAGE_BITS == 1
\* the pages of the files on the medium hold 2 ^ DiskPageBits bytes
DiskPageBits == 5

NBRANCH == 16

HASH_SIZE == 32

\* K1 is a proper prefix of K2 and K3; all three share the byte 0x12.
K1 == <<18>>
K2 == <<18, 52>>
K3 == <<18, 86>>

Keys == {K1, K2, K3}

\* Value { value, extra }
Value_new(value, extra) == [value |-> value, extra |-> extra]

Vals == {Value_new(<<1>>, <<>>), Value_new(<<2>>, <<9>>)}

None == <<>>

Some(x) == <<x>>

(***************************************************************************)
(* utils.rs                                                                *)
(***************************************************************************)
RECURSIVE to_nibbles(_)
to_nibbles(bytes) ==
    IF bytes = <<>> THEN <<>>
    ELSE <<Head(bytes) \div 16, Head(bytes) % 16>> \o to_nibbles(Tail(bytes))

to_path(key) == Append(to_nibbles(key), 16)

RECURSIVE from_nibbles(_)
from_nibbles(nibbles) ==
    IF Len(nibbles) < 2 THEN <<>>
    ELSE <<((nibbles[1] * 16) + nibbles[2]) % 256>> \o from_nibbles(SubSeq(nibbles, 3, Len(nibbles)))

to_compact(path) ==
    LET terminator == IF Len(path) > 0 /\ path[Len(path)] = 16 THEN 1 ELSE 0
        len == Len(path) - terminator
        res == IF len % 2 = 1 THEN <<(terminator * 2) + 1>> ELSE <<terminator * 2, 0>>
    IN from_nibbles(res \o SubSeq(path, 1, len))

(***************************************************************************)
(* RLP syntax trees                                                        *)
(***************************************************************************)
RlpStr(bytes) == [t |-> "str", p |-> bytes, c |-> <<>>]

RlpList(items) == [t |-> "list", p |-> <<>>, c |-> items]

\* rlp::encode(keccak256(raw)): 0xa0 followed by the 32 bytes of the digest
RlpDigest(raw) == [t |-> "digest", p |-> <<>>, c |-> <<raw>>]

\* keccak256(raw), the 32 bytes of the digest
Keccak256(raw) == [t |-> "keccak", p |-> <<>>, c |-> <<raw>>]

\* Vec::new(): no encoding at all
NoHash == [t |-> "none", p |-> <<>>, c |-> <<>>]

RlpHeader(payload) == IF payload < 56 THEN 1 ELSE IF payload < 256 THEN 2 ELSE IF payload < 65536 THEN 3 ELSE 4

\* the length of an item: its header and its payload
RlpItemLen(payload) == RlpHeader(payload) + payload

RECURSIVE RlpLen(_)
RECURSIVE RlpSum(_)
RlpSum(items) == IF items = <<>> THEN 0 ELSE RlpLen(Head(items)) + RlpSum(Tail(items))

RlpLen(term) ==
    CASE term.t = "str" ->
            IF Len(term.p) = 1 /\ term.p[1] < 128 THEN 1
            ELSE RlpHeader(Len(term.p)) + Len(term.p)
      [] term.t = "list" -> RlpItemLen(RlpSum(term.c))
      [] term.t = "digest" -> 1 + HASH_SIZE
      [] term.t = "keccak" -> HASH_SIZE
      [] OTHER -> 0

(***************************************************************************)
(* node.rs: nodes and children                                             *)
(***************************************************************************)
\* Option<Child>::None
NoChild == [kind |-> "None", ptr |-> 0, hash |-> NoHash]

\* Child::Ptr(NodePtr::Dirty(dptr))
PtrDirty(dptr) == [kind |-> "Dirty", ptr |-> dptr, hash |-> NoHash]

\* Child::Ptr(NodePtr::Clean(cptr))
PtrClean(cptr) == [kind |-> "Clean", ptr |-> cptr, hash |-> NoHash]

\* Child::Hash(cptr, h)
ChildHash(cptr, h) == [kind |-> "Hash", ptr |-> cptr, hash |-> h]

\* Option<Node>::None, an empty slot of the dirty arena
NoNode ==
    [type |-> "None", hash |-> NoHash, children |-> <<>>, path |-> <<>>, child |-> NoChild,
     value |-> <<>>, extra |-> <<>>, aha_len |-> 0, aha_ptr |-> 0]

ValueNode(val) == [NoNode EXCEPT !.type = "Value", !.value = val.value, !.extra = val.extra]

Short_new(path, child) == [NoNode EXCEPT !.type = "Short", !.path = path, !.child = child]

Branch_new == [NoNode EXCEPT !.type = "Branch", !.children = [i \in 1..(NBRANCH + 1) |-> NoChild]]

common_prefix_len(snode, nibbles) ==
    LET len == IF Len(snode.path) < Len(nibbles) THEN Len(snode.path) ELSE Len(nibbles)
        diff == {m \in 0..(len - 1) : nibbles[m + 1] # snode.path[m + 1]}
    IN IF diff = {} THEN len ELSE CHOOSE m \in diff : \A n \in diff : m <= n

\* a reference item of a Value that covers the extra bytes as well
Node_hash_extra(node) == IF node.type = "Value" THEN RlpStr(node.value \o node.extra) ELSE node.hash

\* Node::hash: the reference item of a node for embedding into its parent
Node_hash(node) == IF node.type = "Value" THEN RlpStr(node.value) ELSE node.hash

\* Branch::rlp_encode / Short::rlp_encode / Node::rlp_encode; Err is NoHash
rlp_encode(node) ==
    CASE node.type = "Value" -> RlpStr(node.value)
      [] node.type = "Short" ->
            IF node.child.kind = "Hash"
            THEN RlpList(<<RlpStr(to_compact(node.path)), node.child.hash>>)
            ELSE NoHash
      [] node.type = "Branch" ->
            IF \A i \in 1..(NBRANCH + 1) : node.children[i].kind \in {"None", "Hash"}
            THEN RlpList([i \in 1..(NBRANCH + 1) |->
                            IF node.children[i].kind = "None" THEN RlpStr(<<>>)
                            ELSE node.children[i].hash])
            ELSE NoHash
      [] OTHER -> NoHash

\* Branch::calc_hash / Short::calc_hash / Node::calc_hash: the reference item
RefItem(raw) == IF RlpLen(raw) < HASH_SIZE THEN raw ELSE RlpDigest(raw)

\* calc_hash stores the reference item in the node; a Value has no hash field
calc_hash(node) ==
    IF node.type = "Value" THEN node ELSE [node EXCEPT !.hash = RefItem(rlp_encode(node))]

\* Encodable/Decodable for Child: only the CleanPtr is stored
StoredChild(ch) == IF ch.kind = "None" THEN NoChild ELSE PtrClean(ch.ptr)

\* Node::decode(Node::encode(node))
StorageForm(node) ==
    CASE node.type = "Branch" -> [node EXCEPT !.children = [i \in 1..(NBRANCH + 1) |-> StoredChild(node.children[i])]]
      [] node.type = "Short" -> [node EXCEPT !.child = StoredChild(node.child)]
      [] OTHER -> node

\* length of the RLP item of an unsigned integer
IntLen(x) == IF x < 128 THEN 1 ELSE IF x < 256 THEN 2 ELSE IF x < 65536 THEN 3 ELSE 4

\* the items of the bytes of a Vec<u8>: one byte each, two for a byte of 128 and more
BytesPayload(bytes) == Len(bytes) + Cardinality({i \in 1..Len(bytes) : IntLen(bytes[i]) = 2})

\* append_list of a Vec<u8>: every byte is an item of its own
U8ListLen(bytes) == RlpItemLen(BytesPayload(bytes))

\* append_list of a stored reference item; a byte of a digest counts as one item byte
HashListLen(h) == RlpItemLen(RlpLen(h))

StoredChildLen(ch) == IF ch.kind = "None" THEN 1 ELSE 1 + IntLen(ch.ptr)

RECURSIVE ChildrenPayload(_)
ChildrenPayload(children) ==
    IF children = <<>> THEN 0 ELSE StoredChildLen(Head(children)) + ChildrenPayload(Tail(children))

\* Node::encode(node).len()
EncodedLen(node) ==
    LET inner ==
            CASE node.type = "Value" -> U8ListLen(node.value) + U8ListLen(node.extra)
              [] node.type = "Short" ->
                    HashListLen(node.hash) + U8ListLen(node.path) + IntLen(node.child.ptr)
              [] node.type = "Branch" ->
                    HashListLen(node.hash)
                    + RlpItemLen(ChildrenPayload(node.children))
                    + IntLen(node.aha_len) + IntLen(node.aha_ptr)
              [] OTHER -> 0
    IN RlpItemLen(1 + RlpItemLen(inner))

(***************************************************************************)
(* store.rs: NodeStore.  A store state s is a record holding the variables *)
(* of the store and of the Merkle that uses it.                            *)
(***************************************************************************)
\* size_of::<EncodedLen>()
LenPrefix == 2

\* a tail that does not move past the last record: the next write lands on it
backend_tail_stuck(s) == IF s.file = <<>> THEN 0 ELSE s.file[Len(s.file)].cptr

\* Backend::tail of the node file
backend_tail(s) ==
    IF s.file = <<>> THEN 0
    ELSE s.file[Len(s.file)].cptr + LenPrefix + EncodedLen(s.file[Len(s.file)].node)

HasRecord(s, cptr) == \E i \in 1..Len(s.file) : s.file[i].cptr = cptr

\* NodeStore::get_node: read the length prefix, then the body, and decode it
get_node(s, cptr) ==
    LET \* the bytes at an offset are those of the last write there
        rec == s.file[CHOOSE i \in 1..Len(s.file) :
                        /\ s.file[i].cptr = cptr
                        /\ \A j \in (i + 1)..Len(s.file) : s.file[j].cptr # cptr]
    IN IF rec.len = EncodedLen(rec.node) THEN rec.node ELSE NoNode

InClean(s, cptr) == \E e \in s.clean : e.cptr = cptr

CleanEntry(s, cptr) == CHOOSE e \in s.clean : e.cptr = cptr

\* HeapSize for Child
child_heap_size(ch) == IF ch.kind = "Hash" THEN RlpLen(ch.hash) ELSE 0

RECURSIVE children_heap_size(_)
children_heap_size(children) ==
    IF children = <<>> THEN 0 ELSE child_heap_size(Head(children)) + children_heap_size(Tail(children))

\* HeapSize for Node: the bytes an entry of the clean cache counts for
heap_size(node) ==
    CASE node.type = "Value" -> Len(node.value) + Len(node.extra)
      [] node.type = "Short" -> RlpLen(node.hash) + Len(node.path) + child_heap_size(node.child)
      [] node.type = "Branch" -> RlpLen(node.hash) + 1 + 8 + children_heap_size(node.children)
      [] OTHER -> 0

\* LruCache::insert admits an entry that is not larger than the budget; the
\* fixed-size parts of an entry make it larger than the heap bytes of its node
admits(s, node) == heap_size(node) < s.max_size

\* `let _ = self.clean.insert(cptr, node)`: a refused entry leaves the cache as it was
clean_insert(s, cptr, node) ==
    IF admits(s, node)
    THEN [s EXCEPT !.clean = {e \in @ : e.cptr # cptr} \cup {[cptr |-> cptr, node |-> node]}]
    ELSE s

\* NodeStore::get_clean: the node it returns; NoNode when get_node(cptr).unwrap()
\* or clean.get(&cptr).unwrap() panics
get_clean(s, cptr) ==
    IF InClean(s, cptr) THEN CleanEntry(s, cptr).node
    ELSE IF admits(s, get_node(s, cptr)) THEN get_node(s, cptr)
    ELSE NoNode

\* a failed assert!, unwrap or unreachable! while the store lock is held
Panic(s) == [s EXCEPT !.panicked = TRUE]

\* NodeStore::get_clean: the store it leaves behind (a miss loads into the cache)
get_clean_store(s, cptr) ==
    IF InClean(s, cptr) THEN s
    ELSE IF get_clean(s, cptr).type = "None" THEN Panic(s)
    ELSE clean_insert(s, cptr, get_node(s, cptr))

\* NodeStore::take_clean: the node it returns; NoNode when get_node(cptr).unwrap() panics
take_clean(s, cptr) == IF InClean(s, cptr) THEN CleanEntry(s, cptr).node ELSE get_node(s, cptr)

\* NodeStore::take_clean: the store it leaves behind
take_clean_store(s, cptr) ==
    IF InClean(s, cptr) THEN [s EXCEPT !.clean = @ \ {CleanEntry(s, cptr)}]
    ELSE IF get_node(s, cptr).type = "None" THEN Panic(s)
    ELSE s

get_dirty(s, dptr) == s.dirty[dptr + 1]

put_dirty(s, dptr, n) == [s EXCEPT !.dirty[dptr + 1] = n]

\* NodeStore::take_dirty: the store it leaves behind
take_dirty(s, dptr) == put_dirty(s, dptr, NoNode)

\* NodeStore::add_dirty: the new DirtyPtr is Len(s.dirty)
add_dirty(s, n) == [s EXCEPT !.dirty = Append(@, n)]

\* NodeStore::load_aha: nothing to load in a store without AHA
load_aha(s, node) == node

\* NodeStore::cow_clean: the new DirtyPtr is Len(s.dirty)
cow_clean(s, cptr) ==
    add_dirty(IF s.lru THEN get_clean_store(s, cptr) ELSE take_clean_store(s, cptr),
              load_aha(s, IF s.lru THEN get_clean(s, cptr) ELSE take_clean(s, cptr)))

\* NodeStore::add_node
add_node(s, node) ==
    LET Write(cptr) ==
            clean_insert([s EXCEPT !.file = Append(@, [cptr |-> cptr, len |-> EncodedLen(node) % 65536,
                                                       node |-> StorageForm(node)])],
                         cptr, node)
    IN Write(backend_tail(s))

\* one child slot of NodeStore::load_children_hash
LoadChild(s, ch) == IF ch.kind = "Clean" THEN ChildHash(ch.ptr, Node_hash(get_clean(s, ch.ptr))) ELSE ch

\* NodeStore::load_children_hash: the node it produces
load_children_hash(s, node) ==
    CASE node.type = "Branch" -> [node EXCEPT !.children = [i \in 1..(NBRANCH + 1) |-> LoadChild(s, node.children[i])]]
      [] node.type = "Short" -> [node EXCEPT !.child = LoadChild(s, node.child)]
      [] OTHER -> node

CleanChildren(node) ==
    CASE node.type = "Branch" -> {node.children[i].ptr : i \in {j \in 1..(NBRANCH + 1) : node.children[j].kind = "Clean"}}
      [] node.type = "Short" -> IF node.child.kind = "Clean" THEN {node.child.ptr} ELSE {}
      [] OTHER -> {}

\* NodeStore::load_children_hash: the store it leaves behind (every child read is a get_clean)
\* a get_clean of load_children_hash panics
load_children_hash_fails(s, node) == \E c \in CleanChildren(node) : get_clean(s, c).type = "None"

load_children_hash_store(s, node) ==
    IF load_children_hash_fails(s, node) THEN Panic(s)
    ELSE [s EXCEPT !.clean = @ \cup {[cptr |-> c, node |-> get_node(s, c)] : c \in {c \in CleanChildren(node) : ~InClean(s, c)}}]

\* NodeStore::write_aha: nothing to write in a store without AHA
write_aha(s, node) == node

\* NodeStore::commit
store_commit(s) == [s EXCEPT !.dirty = <<>>]

(***************************************************************************)
(* merkle.rs: Merkle::find and Merkle::hash                                *)
(***************************************************************************)
Last(seq) == seq[Len(seq)]

\* the node behind a NodePtr: store.get_dirty(dptr) or store.get_clean(cptr)
PeekNode(s, ch) == IF ch.kind = "Dirty" THEN get_dirty(s, ch.ptr) ELSE get_clean(s, ch.ptr)

\* the store after that read: a get_clean that misses loads the node into the cache
PeekStore(s, ch) == IF ch.kind = "Dirty" THEN s ELSE get_clean_store(s, ch.ptr)

\* the walk of Merkle::find from pointer cur at position i of the path;
\* res is the Option<Value> it returns
RECURSIVE find_walk(_, _, _, _)
find_walk(s, cur, path, i) ==
    IF i > Len(path) THEN [s |-> s, res |-> None, panic |-> FALSE]
    ELSE IF cur.kind = "Dirty" /\ get_dirty(s, cur.ptr).type = "None"
    THEN [s |-> s, res |-> None, panic |-> FALSE]
    ELSE
        LET Visit(node, s1) ==
                CASE node.type = "Branch" ->
                        IF ~(i < Len(path)) THEN [s |-> s1, res |-> None, panic |-> TRUE]
                        ELSE LET ch == node.children[path[i + 1] + 1]
                             IN IF ch.kind = "None" THEN [s |-> s1, res |-> None, panic |-> FALSE]
                                ELSE find_walk(s1, IF ch.kind = "Dirty" THEN ch ELSE PtrClean(ch.ptr), path, i + 1)
                  [] node.type = "Short" ->
                        IF ~(i < Len(path)) THEN [s |-> s1, res |-> None, panic |-> TRUE]
                        ELSE LET shared_len == common_prefix_len(node, SubSeq(path, i + 1, Len(path)))
                                 ch == node.child
                             IN IF shared_len = Len(node.path)
                                THEN find_walk(s1, IF ch.kind = "Dirty" THEN ch ELSE PtrClean(ch.ptr), path, i + shared_len)
                                ELSE [s |-> s1, res |-> None, panic |-> FALSE]
                  [] node.type = "Value" ->
                        IF i # Len(path) THEN [s |-> s1, res |-> None, panic |-> TRUE]
                        ELSE [s |-> s1, res |-> Some(Value_new(node.value, node.extra)), panic |-> FALSE]
                  [] OTHER -> [s |-> s1, res |-> None, panic |-> TRUE]
        IN Visit(PeekNode(s, cur), PeekStore(s, cur))

RootPtr(s) == IF s.root_dptr # None THEN PtrDirty(s.root_dptr[1]) ELSE PtrClean(s.root_cptr)

\* Merkle::find
find_run(s, key) ==
    IF s.root_cptr = 0 /\ s.root_dptr = None THEN [s |-> s, res |-> None, panic |-> FALSE]
    ELSE find_walk(s, RootPtr(s), to_path(key), 0)

find(s, key) == find_run(s, key).res

\* a hash() that reads the live root, dirty or clean
hash_live(s) ==
    LET Digest(root) ==
            IF root.type = "None" THEN Keccak256(RlpStr(<<>>))
            ELSE Keccak256(rlp_encode(load_children_hash(s, root)))
    IN IF s.root_cptr = 0 /\ s.root_dptr = None THEN Keccak256(RlpStr(<<>>))
       ELSE Digest(PeekNode(s, RootPtr(s)))

\* Merkle::hash: the digest it returns; NoHash when the root cannot be encoded
hash(s) ==
    IF s.root_cptr = 0 THEN Keccak256(RlpStr(<<>>))
    ELSE LET Digest(root_rlp) == IF root_rlp = NoHash THEN NoHash ELSE Keccak256(root_rlp)
             Load(s1, root) ==
                IF load_children_hash_fails(s1, root) THEN NoHash
                ELSE Digest(rlp_encode(load_children_hash(s1, root)))
         IN IF get_clean(s, s.root_cptr).type = "None" THEN NoHash
            ELSE Load(get_clean_store(s, s.root_cptr), get_clean(s, s.root_cptr))

(***************************************************************************)
(* merkle.rs: Merkle::insert                                               *)
(***************************************************************************)
\* the DirtyPtr of a child to descend into, and the store after making it dirty
DirtyOf(s, ch) == IF ch.kind = "Dirty" THEN ch.ptr ELSE Len(s.dirty)

MakeDirty(s, ch) ==
    CASE ch.kind = "Dirty" -> s
      [] ch.kind = "None" -> add_dirty(s, NoNode)
      [] OTHER -> cow_clean(s, ch.ptr)

\* the Short of insert whose path matches only a prefix of the remaining path:
\* a Branch is created before it
insert_split(s, cur_dptr, snode, path, i, shared_len, val_dptr) ==
    LET bidx_snode == snode.path[shared_len + 1]
        bidx_path == path[i + 1]
        keep == shared_len + 1 < Len(snode.path)
        kept == [snode EXCEPT !.path = SubSeq(snode.path, shared_len + 2, Len(snode.path))]
        more == i + 1 < Len(path)
        new_snode == Short_new(SubSeq(path, i + 2, Len(path)), PtrDirty(val_dptr))
        bnode(old_child, new_child) ==
            [Branch_new EXCEPT !.children =
                [j \in 1..(NBRANCH + 1) |->
                    IF j = bidx_path + 1 THEN new_child
                    ELSE IF j = bidx_snode + 1 THEN old_child
                    ELSE NoChild]]
        \* s2 is the store after the two children of the branch were placed
        Link(s2, branch) ==
            IF ~more /\ bidx_path # NBRANCH THEN Panic(s2)
            ELSE IF shared_len > 0
            THEN put_dirty(add_dirty(s2, branch), cur_dptr,
                           Short_new(SubSeq(snode.path, 1, shared_len), PtrDirty(Len(s2.dirty))))
            ELSE put_dirty(s2, cur_dptr, branch)
        \* s1 is the store after the child at bidx_snode was placed
        AddNew(s1, old_child) ==
            Link(IF more THEN add_dirty(s1, new_snode) ELSE s1,
                 bnode(old_child, IF more THEN PtrDirty(Len(s1.dirty)) ELSE PtrDirty(val_dptr)))
    IN AddNew(IF keep THEN add_dirty(s, kept) ELSE s,
              IF keep THEN PtrDirty(Len(s.dirty)) ELSE snode.child)

\* the assert of insert on the way from a fully matched Short into its child
ShortDescendAssert(i, path) == i + 1 < Len(path)

\* the loop of Merkle::insert from the dirty node cur_dptr at position i
RECURSIVE insert_loop(_, _, _, _, _)
insert_loop(s, cur_dptr, path, i, val_dptr) ==
    IF ~(i < Len(path)) THEN s
    ELSE
        LET cur_node == get_dirty(s, cur_dptr)
            s0 == take_dirty(s, cur_dptr)
        IN CASE cur_node.type = "None" ->
                    put_dirty(s0, cur_dptr, Short_new(SubSeq(path, i + 1, Len(path)), PtrDirty(val_dptr)))
             [] cur_node.type = "Value" -> Panic(s0)
             [] cur_node.type = "Branch" ->
                    LET bidx == path[i + 1]
                        ch == cur_node.children[bidx + 1]
                    IN IF i + 1 = Len(path)
                       THEN IF bidx # NBRANCH THEN Panic(s0)
                            ELSE put_dirty(s0, cur_dptr, [cur_node EXCEPT !.children[bidx + 1] = PtrDirty(val_dptr)])
                       ELSE LET child_dptr == DirtyOf(s0, ch)
                                s1 == MakeDirty(s0, ch)
                                s2 == put_dirty(s1, cur_dptr, [cur_node EXCEPT !.children[bidx + 1] = PtrDirty(child_dptr)])
                            IN insert_loop(s2, child_dptr, path, i + 1, val_dptr)
             [] cur_node.type = "Short" ->
                    LET shared_len == common_prefix_len(cur_node, SubSeq(path, i + 1, Len(path)))
                        i1 == i + shared_len
                    IN IF i1 = Len(path) /\ shared_len = Len(cur_node.path)
                       THEN put_dirty(s0, cur_dptr, [cur_node EXCEPT !.child = PtrDirty(val_dptr)])
                       ELSE IF i1 < Len(path) /\ shared_len = Len(cur_node.path)
                       THEN IF ~ShortDescendAssert(i1, path) THEN Panic(s0)
                            ELSE LET child_dptr == DirtyOf(s0, cur_node.child)
                                     s1 == MakeDirty(s0, cur_node.child)
                                     s2 == put_dirty(s1, cur_dptr, [cur_node EXCEPT !.child = PtrDirty(child_dptr)])
                                 IN insert_loop(s2, child_dptr, path, i1, val_dptr)
                       ELSE IF ~(i1 < Len(path) /\ shared_len < Len(cur_node.path)) THEN Panic(s0)
                            ELSE insert_split(s0, cur_dptr, cur_node, path, i1, shared_len, val_dptr)
             [] OTHER -> Panic(s0)

\* the dirty root an insert or a delete starts from: the store after creating it
DirtyRootStore(s) ==
    IF s.root_dptr # None THEN s
    ELSE [(IF s.root_cptr = 0 THEN add_dirty(s, NoNode) ELSE cow_clean(s, s.root_cptr))
            EXCEPT !.root_dptr = Some(Len(s.dirty))]

\* Merkle::insert
insert(s, key, val) ==
    LET Walk(s1) == insert_loop(add_dirty(s1, ValueNode(val)), s1.root_dptr[1], to_path(key), 0, Len(s1.dirty))
    IN Walk(DirtyRootStore(s))

(***************************************************************************)
(* merkle.rs: Merkle::delete                                               *)
(***************************************************************************)
\* what delete_rec returns: the store, the Option<NodePtr> as a child slot, removed
DelRet(s, new, removed) == [s |-> s, new |-> new, removed |-> removed]

\* a Short left as it is above a Short child
merge_short_none(s, snode) == snode

\* extension + (extension | leaf) => a single Short with the concatenated path
merge_short(s, snode) ==
    LET Merge(child_node) ==
            IF Last(snode.path) # NBRANCH /\ child_node.type = "Short"
            THEN [snode EXCEPT !.path = @ \o child_node.path, !.child = child_node.child]
            ELSE snode
    IN Merge(PeekNode(s, snode.child))

\* a count of present slots that overlooks the terminator slot
PresentSlots_nibbles(bnode) == {j \in 0..(NBRANCH - 1) : bnode.children[j + 1].kind # "None"}

PresentSlots(bnode) == {j \in 0..NBRANCH : bnode.children[j + 1].kind # "None"}

\* a removal that leaves the Branch in place whatever is left in it
collapse_keep(s, dptr, bnode) == DelRet(put_dirty(s, dptr, bnode), PtrDirty(dptr), TRUE)

\* the collapse rules for a Branch left with `present` slots after a removal
collapse(s, dptr, bnode) ==
    LET present == PresentSlots(bnode)
    IN CASE Cardinality(present) = 0 -> DelRet(put_dirty(s, dptr, NoNode), NoChild, TRUE)
         [] Cardinality(present) = 1 ->
                LET only == CHOOSE j \in present : TRUE
                    only_child == bnode.children[only + 1]
                    new_snode(child_node) ==
                        IF only # NBRANCH /\ child_node.type = "Short"
                        THEN Short_new(<<only>> \o child_node.path, child_node.child)
                        ELSE Short_new(<<only>>, only_child)
                IN DelRet(put_dirty(IF only # NBRANCH THEN PeekStore(s, only_child) ELSE s,
                                    dptr, new_snode(PeekNode(s, only_child))),
                          PtrDirty(dptr), TRUE)
         [] OTHER -> DelRet(put_dirty(s, dptr, bnode), PtrDirty(dptr), TRUE)

RECURSIVE delete_rec(_, _, _, _)
delete_rec(s, dptr, path, depth) ==
    LET node == get_dirty(s, dptr)
        s0 == take_dirty(s, dptr)
    IN CASE node.type = "None" -> DelRet(s0, NoChild, FALSE)
         [] node.type = "Value" ->
                IF depth = Len(path) THEN DelRet(put_dirty(s0, dptr, NoNode), NoChild, TRUE)
                ELSE DelRet(put_dirty(s0, dptr, node), PtrDirty(dptr), FALSE)
         [] node.type = "Short" ->
                LET shared == common_prefix_len(node, SubSeq(path, depth + 1, Len(path)))
                IN IF shared # Len(node.path) THEN DelRet(put_dirty(s0, dptr, node), PtrDirty(dptr), FALSE)
                   ELSE LET child_dptr == DirtyOf(s0, node.child)
                            snode == [node EXCEPT !.child = PtrDirty(child_dptr)]
                            \* r is what delete_rec returned for the child
                            After(r) ==
                                IF ~r.removed THEN DelRet(put_dirty(r.s, dptr, snode), PtrDirty(dptr), FALSE)
                                ELSE IF r.new.kind = "None" THEN DelRet(put_dirty(r.s, dptr, NoNode), NoChild, TRUE)
                                ELSE DelRet(put_dirty(IF Last(snode.path) # NBRANCH THEN PeekStore(r.s, r.new) ELSE r.s,
                                                      dptr, merge_short(r.s, [snode EXCEPT !.child = r.new])),
                                            PtrDirty(dptr), TRUE)
                        IN After(delete_rec(MakeDirty(s0, node.child), child_dptr, path, depth + shared))
         [] node.type = "Branch" ->
                IF depth >= Len(path) THEN DelRet(put_dirty(s0, dptr, node), PtrDirty(dptr), FALSE)
                ELSE LET bidx == path[depth + 1]
                         child == node.children[bidx + 1]
                     IN IF child.kind = "None" THEN DelRet(put_dirty(s0, dptr, node), PtrDirty(dptr), FALSE)
                        ELSE IF depth + 1 = Len(path) /\ bidx = NBRANCH
                        THEN collapse(s0, dptr, [node EXCEPT !.children[bidx + 1] = NoChild])
                        ELSE LET child_dptr == DirtyOf(s0, child)
                                 \* r is what delete_rec returned for the child
                                 After(r) ==
                                    IF ~r.removed
                                    THEN DelRet(put_dirty(r.s, dptr, [node EXCEPT !.children[bidx + 1] = PtrDirty(child_dptr)]),
                                                PtrDirty(dptr), FALSE)
                                    ELSE collapse(r.s, dptr, [node EXCEPT !.children[bidx + 1] = r.new])
                             IN After(delete_rec(MakeDirty(s0, child), child_dptr, path, depth + 1))
         [] OTHER -> DelRet(Panic(s0), NoChild, FALSE)

\* a failed delete that keeps the dirty copy of the root
delete_revert_none(s, prev_root_dptr) == s

\* Merkle::delete when the delete was a no-op: a root that was clean stays clean
delete_revert(s, prev_root_dptr) ==
    IF prev_root_dptr = None THEN [s EXCEPT !.root_dptr = None] ELSE s

\* Merkle::delete: the store it leaves behind and the bool it returns
delete_run(s, key) ==
    IF s.root_cptr = 0 /\ s.root_dptr = None THEN [s |-> s, removed |-> FALSE]
    ELSE LET \* r is what delete_rec returned for the dirty root
             Finish(r, root) ==
                IF ~r.removed THEN [s |-> delete_revert(r.s, s.root_dptr), removed |-> FALSE]
                ELSE CASE r.new.kind = "None" ->
                            [s |-> [put_dirty(r.s, root, NoNode) EXCEPT !.root_dptr = Some(root)], removed |-> TRUE]
                       [] r.new.kind = "Dirty" ->
                            [s |-> [r.s EXCEPT !.root_dptr = Some(r.new.ptr)], removed |-> TRUE]
                       [] OTHER ->
                            [s |-> [cow_clean(r.s, r.new.ptr) EXCEPT !.root_dptr = Some(Len(r.s.dirty))], removed |-> TRUE]
             Start(s1) == Finish(delete_rec(s1, s1.root_dptr[1], to_path(key), 0), s1.root_dptr[1])
         IN Start(DirtyRootStore(s))

delete(s, key) == delete_run(s, key).s

(***************************************************************************)
(* merkle.rs: Merkle::commit                                               *)
(***************************************************************************)
\* the dirty children of a node, in slot order
DirtyChildren(node) ==
    CASE node.type = "Branch" -> SelectSeq(node.children, LAMBDA ch : ch.kind = "Dirty")
      [] node.type = "Short" -> IF node.child.kind = "Dirty" THEN <<node.child>> ELSE <<>>
      [] OTHER -> <<>>

\* push (dptr, take_dirty(dptr).unwrap()) for every child of chs
RECURSIVE push_children(_, _, _)
push_children(s, nodes, chs) ==
    IF chs = <<>> THEN [s |-> s, nodes |-> nodes, panic |-> FALSE]
    ELSE LET dptr == Head(chs).ptr
         IN IF get_dirty(s, dptr).type = "None" THEN [s |-> s, nodes |-> nodes, panic |-> TRUE]
            ELSE push_children(take_dirty(s, dptr),
                               Append(nodes, [dptr |-> dptr, node |-> get_dirty(s, dptr)]),
                               Tail(chs))

RECURSIVE commit_order_loop(_, _, _)
commit_order_loop(s, nodes, i) ==
    IF ~(i < Len(nodes)) THEN [s |-> s, nodes |-> nodes, panic |-> FALSE]
    ELSE LET Pushed(r) == IF r.panic THEN r ELSE commit_order_loop(r.s, r.nodes, i + 1)
         IN Pushed(push_children(s, nodes, DirtyChildren(nodes[i + 1].node)))

\* Merkle::commit_order: the dirty nodes reachable from the root, parents first
commit_order(s, root) ==
    IF get_dirty(s, root).type = "None" THEN [s |-> s, nodes |-> <<>>, panic |-> TRUE]
    ELSE commit_order_loop(take_dirty(s, root),
                           <<[dptr |-> root, node |-> get_dirty(s, root)]>>, 0)

InMap(ptr_map, dptr) == \E e \in ptr_map : e.dptr = dptr

MapEntry(ptr_map, dptr) == CHOOSE e \in ptr_map : e.dptr = dptr

\* one child slot of the node being committed: Ptr(Dirty) becomes Hash(cptr, hash)
Finalize(ptr_map, ch) ==
    IF ch.kind = "Dirty" THEN ChildHash(MapEntry(ptr_map, ch.ptr).cptr, MapEntry(ptr_map, ch.ptr).hash) ELSE ch

finalize_children(ptr_map, node) ==
    CASE node.type = "Branch" -> [node EXCEPT !.children = [j \in 1..(NBRANCH + 1) |-> Finalize(ptr_map, node.children[j])]]
      [] node.type = "Short" -> [node EXCEPT !.child = Finalize(ptr_map, node.child)]
      [] OTHER -> node

DirtyPtrs(node) == {DirtyChildren(node)[j].ptr : j \in 1..Len(DirtyChildren(node))}

\* a pop of the front of the worklist: parents before children
commit_next_front(nodes) == 1

\* the pop of the next node to commit: the code pops the back of the worklist
commit_next(nodes) == Len(nodes)

\* the loop of Merkle::commit over the worklist, children before parents
RECURSIVE commit_loop(_, _, _)
commit_loop(s, nodes, ptr_map) ==
    IF nodes = <<>> THEN [s |-> s, ptr_map |-> ptr_map, panic |-> FALSE]
    ELSE LET k == commit_next(nodes)
             dptr == nodes[k].dptr
             node == nodes[k].node
             rest == SubSeq(nodes, 1, k - 1) \o SubSeq(nodes, k + 1, Len(nodes))
             unmapped == \/ \E d \in DirtyPtrs(node) : ~InMap(ptr_map, d)
                         \/ Cardinality(DirtyPtrs(node)) # Len(DirtyChildren(node))
         IN IF unmapped THEN [s |-> s, ptr_map |-> ptr_map, panic |-> TRUE]
            ELSE LET map1 == {e \in ptr_map : e.dptr \notin DirtyPtrs(node)}
                     \* node3 is the node with its hash calculated, s1 the store it is added to
                     Add(s1, node3) ==
                        commit_loop(add_node(s1, write_aha(s1, node3)), rest,
                                    map1 \cup {[dptr |-> dptr, cptr |-> backend_tail(s1), hash |-> Node_hash(node3)]})
                     \* node2 is the node with the hashes of its children loaded
                     Hash(s1, node2) ==
                        IF rlp_encode(node2) = NoHash THEN [s |-> s1, ptr_map |-> map1, panic |-> TRUE]
                        ELSE Add(s1, calc_hash(node2))
                     \* node1 is the node with its dirty children replaced from ptr_map
                     Load(node1) == Hash(load_children_hash_store(s, node1), load_children_hash(s, node1))
                 IN Load(finalize_children(ptr_map, node))

\* a commit of an empty trie that keeps the previous root identifier
commit_empty_keep(s) == store_commit([s EXCEPT !.root_dptr = None])

\* Merkle::commit with a dirty root that holds no node: the trie was deleted to empty
commit_empty(s) == store_commit([s EXCEPT !.root_cptr = 0, !.root_dptr = None])

\* Merkle::commit: the store it leaves behind; the CleanPtr it returns is root_cptr
commit(s) ==
    IF s.root_dptr = None THEN s
    ELSE IF get_dirty(s, s.root_dptr[1]).type = "None" THEN commit_empty(s)
    ELSE LET root == s.root_dptr[1]
             \* r is the outcome of the loop over the worklist
             Done(r) ==
                IF r.panic \/ ~InMap(r.ptr_map, root) THEN Panic(r.s)
                ELSE store_commit([r.s EXCEPT !.root_cptr = MapEntry(r.ptr_map, root).cptr,
                                              !.root_dptr = None])
             \* o is the worklist commit_order returned
             Ordered(o) == IF o.panic THEN Panic(o.s) ELSE Done(commit_loop(o.s, o.nodes, {}))
         IN Ordered(commit_order(s, root))

(***************************************************************************)
(* tests/eth_merkle.rs: the reference MPT of the tests                     *)
(***************************************************************************)
\* Option<Node>::None
MNil == [t |-> "Nil", path |-> <<>>, value |-> None, kids |-> <<>>]

MLeaf(path, value) == [t |-> "Leaf", path |-> path, value |-> Some(value), kids |-> <<>>]

MExt(path, child) == [t |-> "Ext", path |-> path, value |-> None, kids |-> <<child>>]

MBranch(children, value) == [t |-> "Branch", path |-> <<>>, value |-> value, kids |-> children]

MNoChildren == [j \in 1..NBRANCH |-> MNil]

\* Nibbles::common_prefix
common_prefix(a, b) ==
    LET len == IF Len(a) < Len(b) THEN Len(a) ELSE Len(b)
        diff == {m \in 0..(len - 1) : a[m + 1] # b[m + 1]}
    IN IF diff = {} THEN len ELSE CHOOSE m \in diff : \A n \in diff : m <= n

Drop(seq, n) == SubSeq(seq, n + 1, Len(seq))

Take(seq, n) == SubSeq(seq, 1, n)

\* Nibbles::encode_compact
RECURSIVE chunks2(_)
chunks2(data) ==
    IF data = <<>> THEN <<>>
    ELSE IF Len(data) = 1 THEN <<(data[1] * 16) % 256>>
    ELSE <<((data[1] * 16) + data[2]) % 256>> \o chunks2(Drop(data, 2))

encode_compact(data, is_leaf) ==
    LET term == IF is_leaf THEN 2 ELSE 0
        odd == Len(data) % 2 # 0
        flags == IF odd THEN term + 1 ELSE term
    IN IF odd THEN <<((flags * 16) + data[1]) % 256>> \o chunks2(Drop(data, 1))
       ELSE <<(flags * 16) % 256>> \o chunks2(data)

\* MPT::insert_rec
RECURSIVE MPT_insert_rec(_, _, _)
MPT_insert_rec(node, path, value) ==
    CASE node.t = "Nil" -> MLeaf(path, value)
      [] node.t = "Leaf" ->
            LET common == common_prefix(path, node.path)
                suffix_old == Drop(node.path, common)
                suffix_new == Drop(path, common)
                children == [j \in 1..NBRANCH |->
                                IF suffix_new # <<>> /\ j = suffix_new[1] + 1 THEN MLeaf(Drop(suffix_new, 1), value)
                                ELSE IF suffix_old # <<>> /\ j = suffix_old[1] + 1 THEN MLeaf(Drop(suffix_old, 1), node.value[1])
                                ELSE MNil]
                branch_val == IF suffix_new = <<>> THEN Some(value)
                              ELSE IF suffix_old = <<>> THEN node.value ELSE None
                branch == MBranch(children, branch_val)
            IN IF common = Len(node.path) /\ common = Len(path) THEN MLeaf(node.path, value)
               ELSE IF common > 0 THEN MExt(Take(path, common), branch) ELSE branch
      [] node.t = "Ext" ->
            LET common == common_prefix(path, node.path)
                suffix_ext == Drop(node.path, common)
                suffix_new == Drop(path, common)
                rem_ext == Drop(suffix_ext, 1)
                children == [j \in 1..NBRANCH |->
                                IF j = suffix_new[1] + 1 THEN MLeaf(Drop(suffix_new, 1), value)
                                ELSE IF j = suffix_ext[1] + 1
                                     THEN (IF rem_ext = <<>> THEN node.kids[1] ELSE MExt(rem_ext, node.kids[1]))
                                ELSE MNil]
                branch == MBranch(children, None)
            IN IF common = Len(node.path)
               THEN MExt(node.path, MPT_insert_rec(node.kids[1], Drop(path, common), value))
               ELSE IF common > 0 THEN MExt(Take(path, common), branch) ELSE branch
      [] OTHER ->
            IF path = <<>> THEN MBranch(node.kids, Some(value))
            ELSE MBranch([node.kids EXCEPT ![path[1] + 1] = MPT_insert_rec(@, Drop(path, 1), value)], node.value)

\* MPT::compress
MPT_compress(node) ==
    CASE node.t = "Branch" ->
            LET present == {j \in 0..(NBRANCH - 1) : node.kids[j + 1].t # "Nil"}
                idx == CHOOSE j \in present : TRUE
                child == node.kids[idx + 1]
            IN CASE Cardinality(present) = 0 /\ node.value = None -> MNil
                 [] Cardinality(present) = 0 /\ node.value # None -> MLeaf(<<>>, node.value[1])
                 [] Cardinality(present) = 1 /\ node.value = None ->
                        CASE child.t = "Leaf" -> MLeaf(<<idx>> \o child.path, child.value[1])
                          [] child.t = "Ext" -> MExt(<<idx>> \o child.path, child.kids[1])
                          [] OTHER -> MExt(<<idx>>, child)
                 [] OTHER -> node
      [] node.t = "Ext" ->
            CASE node.kids[1].t = "Ext" -> MExt(node.path \o node.kids[1].path, node.kids[1].kids[1])
              [] node.kids[1].t = "Leaf" -> MLeaf(node.path \o node.kids[1].path, node.kids[1].value[1])
              [] OTHER -> node
      [] OTHER -> node

\* MPT::delete_rec: the new node and whether the key was removed
RECURSIVE MPT_delete_rec(_, _)
MPT_delete_rec(node, path) ==
    CASE node.t = "Nil" -> [node |-> MNil, removed |-> FALSE]
      [] node.t = "Leaf" ->
            IF node.path = path THEN [node |-> MNil, removed |-> TRUE] ELSE [node |-> node, removed |-> FALSE]
      [] node.t = "Ext" ->
            LET common == common_prefix(path, node.path)
                r == MPT_delete_rec(node.kids[1], Drop(path, common))
            IN IF common # Len(node.path) THEN [node |-> node, removed |-> FALSE]
               ELSE IF ~r.removed THEN [node |-> MExt(node.path, r.node), removed |-> FALSE]
               ELSE IF r.node.t = "Nil" THEN [node |-> MNil, removed |-> TRUE]
               ELSE CASE r.node.t = "Ext" ->
                            [node |-> MExt(node.path \o r.node.path, r.node.kids[1]), removed |-> TRUE]
                      [] r.node.t = "Leaf" ->
                            [node |-> MLeaf(node.path \o r.node.path, r.node.value[1]), removed |-> TRUE]
                      [] OTHER -> [node |-> MExt(node.path, r.node), removed |-> TRUE]
      [] OTHER ->
            IF path = <<>>
            THEN IF node.value = None THEN [node |-> node, removed |-> FALSE]
                 ELSE [node |-> MPT_compress(MBranch(node.kids, None)), removed |-> TRUE]
            ELSE LET r == MPT_delete_rec(node.kids[path[1] + 1], Drop(path, 1))
                     branch == MBranch([node.kids EXCEPT ![path[1] + 1] = r.node], node.value)
                 IN IF ~r.removed THEN [node |-> branch, removed |-> FALSE]
                    ELSE [node |-> MPT_compress(branch), removed |-> TRUE]

\* MPT::insert and MPT::delete
MPT_insert(root, key, value) == MPT_insert_rec(root, to_nibbles(key), value)

MPT_delete(root, key) == MPT_delete_rec(root, to_nibbles(key))

\* Node::rlp_canonical and Node::rlp_for_parent of the reference
RECURSIVE rlp_canonical(_)
rlp_for_parent(node) == RefItem(rlp_canonical(node))

rlp_canonical(node) ==
    CASE node.t = "Leaf" -> RlpList(<<RlpStr(encode_compact(node.path, TRUE)), RlpStr(node.value[1])>>)
      [] node.t = "Ext" -> RlpList(<<RlpStr(encode_compact(node.path, FALSE)), RefItem(rlp_canonical(node.kids[1]))>>)
      [] node.t = "Branch" ->
            RlpList([j \in 1..(NBRANCH + 1) |->
                        IF j <= NBRANCH
                        THEN (IF node.kids[j].t = "Nil" THEN RlpStr(<<>>) ELSE RefItem(rlp_canonical(node.kids[j])))
                        ELSE (IF node.value = None THEN RlpStr(<<>>) ELSE RlpStr(node.value[1]))])
      [] OTHER -> NoHash

\* MPT::root_hash
MPT_root_hash(root) == IF root.t = "Nil" THEN Keccak256(RlpStr(<<>>)) ELSE Keccak256(rlp_canonical(root))

(***************************************************************************)
(* The state machine: one Merkle over one NodeStore, driven as the tests   *)
(* of merkle/tests drive it, with the reference MPT fed in lock-step.      *)
(***************************************************************************)
\* the store and the Merkle as one record
Cur ==
    [dirty |-> dirty, clean |-> clean, file |-> file, root_cptr |-> root_cptr,
     root_dptr |-> root_dptr, panicked |-> panicked, lru |-> lru, max_size |-> max_size]

\* the same fields after the step
Succ ==
    [dirty |-> dirty', clean |-> clean', file |-> file', root_cptr |-> root_cptr',
     root_dptr |-> root_dptr', panicked |-> panicked', lru |-> lru', max_size |-> max_size']

Store(s) ==
    /\ dirty' = s.dirty
    /\ clean' = s.clean
    /\ file' = s.file
    /\ root_cptr' = s.root_cptr
    /\ root_dptr' = s.root_dptr
    /\ panicked' = s.panicked
    /\ lru' = s.lru
    /\ max_size' = s.max_size

\* Merkle::new(store, root_ptr) over the store the current Merkle uses
Merkle_new(s, root_ptr) == [s EXCEPT !.root_cptr = root_ptr, !.root_dptr = None]

\* NodeStore::new over the same backend: an empty dirty arena and an empty clean cache
NodeStore_new(s) == [s EXCEPT !.dirty = <<>>, !.clean = {}]

NoKey == <<>>

\* the number of inserts, deletes and commits performed so far
NOps == count.insert + count.delete + count.commit

\* what an operation was and what it returned: val is the Option<Value> of a find
\* (the argument of an insert), ok the bool of a delete, root the CleanPtr of a commit
\* order: the keys a WriteBatch received, in the order of their first insert
NoBatch == [insert |-> 0, removed |-> 0, missed |-> 0, order |-> <<>>]

\* a commit also records the batch it committed
Ret(op, key, val, ok, root) ==
    [op |-> op, key |-> key, val |-> val, ok |-> ok, root |-> root, batch |-> NoBatch]

\* Keccak256::digest(&[0x80]), the hash of the empty trie
EmptyHash == Keccak256(RlpStr(<<>>))

EmptyContent == [k \in Keys |-> None]

\* the reference MPT that holds the given content
MPT_from(content) ==
    LET Put(m, k) == IF content[k] = None THEN m ELSE MPT_insert(m, k, content[k][1].value)
    IN Put(Put(Put(MNil, K1), K2), K3)

\* a committed root: its CleanPtr, the content and the hash() it was committed with
Root(root, content, h) == [root |-> root, live |-> content, hash |-> h]

\* the record of the committed root with the given CleanPtr
Entry(root) == CHOOSE r \in roots : r.root = root

\* NodeStore::new over an empty backend and Merkle::new(store, 0)
FreshMerkle ==
    /\ dirty = <<>>
    /\ clean = {}
    /\ file = <<>>
    /\ root_cptr = 0
    /\ root_dptr = None
    /\ panicked = FALSE
    /\ lru \in BOOLEAN
    /\ mpt = MNil
    /\ live = EmptyContent
    /\ ret = Ret("new", NoKey, None, FALSE, 0)
    /\ roots = {Root(0, EmptyContent, EmptyHash)}
    /\ count = [insert |-> 0, delete |-> 0, commit |-> 0, other |-> 0]
    /\ batch = NoBatch
    /\ chash = EmptyHash

\* the same with a clean cache that the nodes of a run never fill
Fresh == FreshMerkle /\ max_size = CacheAmple

\* no commit in steps, no PageCachedFile and no AHA of their own
Idle == disk = None /\ pcf = None /\ aha = None

\* no second trie and no DB
Alone == twin = None /\ db = None /\ Idle

Init == Fresh /\ Alone /\ budget = [ops |-> MaxOps, reads |-> 0]

\* merkle.insert(key, val); mpt.insert(key, val.value)
InsertOp(k, v) ==
    /\ ~panicked
    /\ NOps < budget.ops
    /\ LET Done(s) ==
                /\ Store(s)
                /\ mpt' = IF s.panicked THEN mpt ELSE MPT_insert(mpt, k, v.value)
                /\ live' = IF s.panicked THEN live ELSE [live EXCEPT ![k] = Some(v)]
       IN Done(insert(Cur, k, v))
    /\ ret' = Ret("insert", k, Some(v), FALSE, 0)
    /\ count' = [count EXCEPT !.insert = @ + 1]
    /\ batch' = [batch EXCEPT !.insert = @ + 1]
    /\ UNCHANGED <<roots, chash, budget>>

\* merkle.delete(key); mpt.delete(key)
DeleteOp(k) ==
    /\ ~panicked
    /\ NOps < budget.ops
    /\ LET Done(r) ==
                /\ Store(r.s)
                /\ ret' = Ret("delete", k, None, r.removed, 0)
                /\ mpt' = IF r.s.panicked THEN mpt ELSE MPT_delete(mpt, k).node
                /\ live' = IF r.s.panicked THEN live ELSE [live EXCEPT ![k] = None]
       IN Done(delete_run(Cur, k))
    /\ count' = [count EXCEPT !.delete = @ + 1]
    /\ batch' = IF live[k] = None THEN [batch EXCEPT !.missed = @ + 1] ELSE [batch EXCEPT !.removed = @ + 1]
    /\ UNCHANGED <<roots, chash, budget>>

\* merkle.commit(), and the hash() right after it
CommitOp ==
    /\ ~panicked
    /\ NOps < budget.ops
    /\ LET Done(s) ==
                /\ Store(s)
                /\ ret' = [Ret("commit", NoKey, None, FALSE, s.root_cptr) EXCEPT !.batch = batch]
                /\ roots' = IF s.panicked THEN roots ELSE roots \cup {Root(s.root_cptr, live, hash(s))}
                /\ chash' = IF s.panicked THEN chash ELSE hash(s)
           \* hash() panics when it cannot read or encode the root
           Hashed(c) == IF ~c.panicked /\ hash(c) = NoHash THEN Panic(c) ELSE c
       IN Done(Hashed(commit(Cur)))
    /\ count' = [count EXCEPT !.commit = @ + 1]
    /\ batch' = NoBatch
    /\ UNCHANGED <<mpt, live, budget>>

\* merkle.find(key)
FindOp(k) ==
    /\ ~panicked
    /\ count.other < budget.reads
    /\ LET Done(r) ==
                /\ Store(IF r.panic THEN Panic(r.s) ELSE r.s)
                /\ ret' = Ret("find", k, r.res, FALSE, 0)
       IN Done(find_run(Cur, k))
    /\ count' = [count EXCEPT !.other = @ + 1]
    /\ UNCHANGED <<mpt, live, roots, batch, chash, budget>>

\* a Merkle::new on a committed root over the same store, as DB::open_root makes it
OpenRootOp(r) ==
    /\ ~panicked
    /\ count.other < budget.reads
    /\ Store(Merkle_new(Cur, r.root))
    /\ mpt' = MPT_from(r.live)
    /\ live' = r.live
    /\ ret' = Ret("open_root", NoKey, None, FALSE, r.root)
    /\ count' = [count EXCEPT !.other = @ + 1]
    /\ batch' = NoBatch
    /\ chash' = r.hash
    /\ UNCHANGED <<roots, budget>>

\* new_merkle(shared, root) of the tests: a new NodeStore over the same node
\* file and a Merkle::new on a committed root
ReopenOp(r) ==
    /\ ~panicked
    /\ count.other < budget.reads
    /\ Store(Merkle_new(NodeStore_new(Cur), r.root))
    /\ mpt' = MPT_from(r.live)
    /\ live' = r.live
    /\ ret' = Ret("reopen", NoKey, None, FALSE, r.root)
    /\ count' = [count EXCEPT !.other = @ + 1]
    /\ batch' = NoBatch
    /\ chash' = r.hash
    /\ UNCHANGED <<roots, budget>>

\* the operations on a Merkle that stands alone
Insert(k, v) == InsertOp(k, v) /\ UNCHANGED <<twin, db, disk, pcf, aha>>

Delete(k) == DeleteOp(k) /\ UNCHANGED <<twin, db, disk, pcf, aha>>

Commit == CommitOp /\ UNCHANGED <<twin, db, disk, pcf, aha>>

Find(k) == FindOp(k) /\ UNCHANGED <<twin, db, disk, pcf, aha>>

OpenRoot(r) == OpenRootOp(r) /\ UNCHANGED <<twin, db, disk, pcf, aha>>

Reopen(r) == ReopenOp(r) /\ UNCHANGED <<twin, db, disk, pcf, aha>>

\* inserts, deletes and commits on one Merkle
Next ==
    \/ \E k \in Keys, v \in Vals : Insert(k, v)
    \/ \E k \in Keys : Delete(k)
    \/ Commit

Spec == Init /\ [][Next]_vars

\* the same with reads, and with switches to committed roots on the same store
\* and on a new store
InitHist == Fresh /\ Alone /\ budget = [ops |-> MaxHistOps, reads |-> MaxReads]

NextHist ==
    \/ \E k \in Keys, v \in Vals : Insert(k, v)
    \/ \E k \in Keys : Delete(k)
    \/ Commit
    \/ \E k \in Keys : Find(k)
    \/ \E r \in roots : OpenRoot(r)
    \/ \E r \in roots : Reopen(r)

SpecHist == InitHist /\ [][NextHist]_vars

(***************************************************************************)
(* Two tries that receive the same operations with different extras        *)
(***************************************************************************)
Extras == {<<>>, <<7>>}

\* the second trie: its store and Merkle, its content, its content as committed
Twin(s, content, committed) == [s |-> s, live |-> content, committed |-> committed]

InitTwin ==
    /\ Fresh
    /\ twin = Twin(Cur, EmptyContent, EmptyContent)
    /\ db = None
    /\ Idle
    /\ budget = [ops |-> MaxTwinOps, reads |-> 1]

\* the same key and value inserted into both tries, with extra e in the second
TwinInsert(k, v, e) ==
    /\ InsertOp(k, v)
    /\ LET Done(t) ==
            twin' = Twin(t, IF t.panicked THEN twin.live
                            ELSE [twin.live EXCEPT ![k] = Some(Value_new(v.value, e))],
                         twin.committed)
       IN Done(insert(twin.s, k, Value_new(v.value, e)))
    /\ UNCHANGED <<db, disk, pcf, aha>>

TwinDelete(k) ==
    /\ DeleteOp(k)
    /\ twin' = Twin(delete_run(twin.s, k).s, [twin.live EXCEPT ![k] = None], twin.committed)
    /\ UNCHANGED <<db, disk, pcf, aha>>

TwinCommit ==
    /\ CommitOp
    /\ twin' = Twin(commit(twin.s), twin.live, twin.live)
    /\ UNCHANGED <<db, disk, pcf, aha>>

\* both tries reloaded from their node files: new_merkle(shared, root) of the tests
TwinReopen ==
    /\ ReopenOp(Entry(root_cptr))
    /\ twin' = Twin(Merkle_new(NodeStore_new(twin.s), twin.s.root_cptr), twin.committed, twin.committed)
    /\ UNCHANGED <<db, disk, pcf, aha>>

NextTwin ==
    \/ \E k \in Keys, v \in Vals, e \in Extras : TwinInsert(k, v, e)
    \/ \E k \in Keys : TwinDelete(k)
    \/ TwinCommit
    \/ TwinReopen

SpecTwin == InitTwin /\ [][NextTwin]_vars

(***************************************************************************)
(* db.rs: DB and WriteBatch                                                *)
(***************************************************************************)
\* the budgets of the value cache a DB is opened with; 0 is no value cache
ValueCacheSizes == {0, 1, 2, 8}

DBVals == {<<1>>, <<2>>}

\* lru_mem: the heap bytes of an entry of LruCache<Vec<u8>, Option<Vec<u8>>>, the
\* unit the budget is counted in
EntrySize(key, val) == Len(key) + (IF val = None THEN 0 ELSE Len(val[1]))

RECURSIVE CacheSize(_)
CacheSize(c) == IF c = <<>> THEN 0 ELSE EntrySize(c[1].key, c[1].val) + CacheSize(Tail(c))

CacheHas(c, key) == \E i \in 1..Len(c) : c[i].key = key

CacheAt(c, key) == c[CHOOSE i \in 1..Len(c) : c[i].key = key]

CacheRemove(c, key) ==
    LET Other(e) == e.key # key
    IN SelectSeq(c, Other)

\* LruCache::get of a present key: the entry becomes the most recently used
LruCache_get(c, key) == Append(CacheRemove(c, key), CacheAt(c, key))

\* the least recently used entries leave until the rest fits
RECURSIVE Eject(_, _)
Eject(c, target) == IF CacheSize(c) <= target THEN c ELSE Eject(Tail(c), target)

\* LruCache::insert, whose Result db.rs drops: an entry larger than the budget is
\* refused and the cache stays as it was, the entry under the same key included
LruCache_insert(c, max, key, val) ==
    IF EntrySize(key, val) > max THEN c
    ELSE Append(Eject(CacheRemove(c, key), max - EntrySize(key, val)), [key |-> key, val |-> val])

NoStaging == [k \in Keys |-> None]

\* size_of::<CleanPtr>(): the size of a record of the root journal
ROOT_RECORD == 8

\* the w least significant bytes of n, the least significant first
RECURSIVE le_bytes(_, _)
le_bytes(n, w) == IF w = 0 THEN <<>> ELSE <<n % 256>> \o le_bytes(n \div 256, w - 1)

\* u64::to_le_bytes
u64_to_le_bytes(n) == le_bytes(n, ROOT_RECORD)

\* u64::from_le_bytes
RECURSIVE u64_from_le_bytes(_)
u64_from_le_bytes(b) == IF b = <<>> THEN 0 ELSE Head(b) + 256 * u64_from_le_bytes(Tail(b))

\* the bytes of record j (from 0) of a root journal
JournalRecord(journal, j) == SubSeq(journal, ROOT_RECORD * j + 1, ROOT_RECORD * (j + 1))

\* DB::open on an empty directory with value cache budget max
DB_open(max) ==
    [staging |-> NoStaging, db_value_cache |-> <<>>, max |-> max, root_file |-> <<>>]

\* DB::get: the store and the DB it leaves behind, and the Option<Vec<u8>> it returns
DB_get(s, d, key) ==
    IF d.max > 0 /\ CacheHas(d.db_value_cache, key)
    THEN [s |-> s, d |-> [d EXCEPT !.db_value_cache = LruCache_get(@, key)],
          res |-> CacheAt(d.db_value_cache, key).val]
    ELSE LET computed(r) == IF r.res = None THEN None ELSE Some(r.res[1].value)
             Found(r) ==
                [s |-> IF r.panic THEN Panic(r.s) ELSE r.s,
                 d |-> IF d.max > 0
                       THEN [d EXCEPT !.db_value_cache = LruCache_insert(@, d.max, key, computed(r))]
                       ELSE d,
                 res |-> computed(r)]
         IN Found(find_run(s, key))

\* DB::open_root: the store and the DB it leaves behind
DB_open_root(s, d, root_ptr) ==
    IF s.root_cptr = root_ptr THEN [s |-> s, d |-> d]
    ELSE [s |-> Merkle_new(s, root_ptr), d |-> [d EXCEPT !.db_value_cache = <<>>]]

\* WriteBatch::insert
WriteBatch_insert(d, key, value) == [d EXCEPT !.staging[key] = Some(value)]

Staged(d) == {k \in Keys : d.staging[k] # None}

\* the orders in which HashMap::drain may yield the staged keys
DrainOrders(d) ==
    {o \in [1..Cardinality(Staged(d)) -> Staged(d)] : \A i, j \in DOMAIN o : o[i] = o[j] => i = j}

\* the drain loop of WriteBatch::commit: merkle.insert, then cache.insert
RECURSIVE drain(_, _, _)
drain(s, d, order) ==
    IF order = <<>> THEN [s |-> s, d |-> d]
    ELSE LET key == Head(order)
             value == d.staging[key][1]
             After(s1) ==
                IF s1.panicked THEN [s |-> s1, d |-> d]
                ELSE drain(s1,
                           [d EXCEPT !.staging[key] = None,
                                     !.db_value_cache = IF d.max > 0
                                                        THEN LruCache_insert(@, d.max, key, Some(value))
                                                        ELSE @],
                           Tail(order))
         IN After(insert(s, key, Value_new(value, <<>>)))

\* WriteBatch::commit: drain, merkle.commit, flush, append the root to the root file
WriteBatch_commit(s, d, order) ==
    LET Journal(r, s2) ==
            [s |-> s2,
             d |-> IF s2.panicked THEN r.d ELSE [r.d EXCEPT !.root_file = @ \o u64_to_le_bytes(s2.root_cptr)]]
        Drained(r) == IF r.s.panicked THEN r ELSE Journal(r, commit(r.s))
    IN Drained(drain(s, d, order))

\* the content after the commit of the staged pairs
StagedOver(d, content) ==
    [k \in Keys |-> IF d.staging[k] # None THEN Some(Value_new(d.staging[k][1], <<>>)) ELSE content[k]]

InitDB ==
    /\ Fresh
    /\ twin = None
    /\ Idle
    /\ db \in {DB_open(max) : max \in ValueCacheSizes}
    /\ budget = [ops |-> MaxDBOps, reads |-> MaxReads]

\* wb.insert(key, value)
WBInsert(k, value) ==
    /\ ~panicked
    /\ NOps < budget.ops
    /\ db' = WriteBatch_insert(db, k, value)
    /\ ret' = Ret("wb_insert", k, Some(value), FALSE, 0)
    /\ count' = [count EXCEPT !.insert = @ + 1]
    /\ batch' = [batch EXCEPT !.insert = @ + 1,
                              !.order = IF db.staging[k] = None THEN Append(@, k) ELSE @]
    /\ UNCHANGED <<dirty, clean, file, root_cptr, root_dptr, panicked, lru, max_size, mpt, live, roots,
                   chash, budget, twin, disk, pcf, aha>>

\* wb.commit(), and the hash() right after it
WBCommit ==
    /\ ~panicked
    /\ NOps < budget.ops
    /\ \E order \in DrainOrders(db) :
          LET Done(r, content) ==
                /\ Store(r.s)
                /\ db' = r.d
                /\ ret' = [Ret("wb_commit", NoKey, None, FALSE, r.s.root_cptr) EXCEPT !.batch = batch]
                /\ live' = IF r.s.panicked THEN live ELSE content
                /\ mpt' = IF r.s.panicked THEN mpt ELSE MPT_from(content)
                /\ roots' = IF r.s.panicked THEN roots
                            ELSE roots \cup {Root(r.s.root_cptr, content, hash(r.s))}
                /\ chash' = IF r.s.panicked THEN chash ELSE hash(r.s)
          IN Done(WriteBatch_commit(Cur, db, order), StagedOver(db, live))
    /\ count' = [count EXCEPT !.commit = @ + 1]
    /\ batch' = NoBatch
    /\ UNCHANGED <<budget, twin, disk, pcf, aha>>

\* db.get(key)
DBGet(k) ==
    /\ ~panicked
    /\ count.other < budget.reads
    /\ LET Done(r) ==
                /\ Store(r.s)
                /\ db' = r.d
                /\ ret' = Ret("get", k, r.res, FALSE, 0)
       IN Done(DB_get(Cur, db, k))
    /\ count' = [count EXCEPT !.other = @ + 1]
    /\ UNCHANGED <<mpt, live, roots, batch, chash, budget, twin, disk, pcf, aha>>

\* db.open_root(root) of a committed root
DBOpenRoot(r) ==
    /\ ~panicked
    /\ count.other < budget.reads
    /\ LET Done(o) ==
                /\ Store(o.s)
                /\ db' = o.d
       IN Done(DB_open_root(Cur, db, r.root))
    /\ mpt' = MPT_from(r.live)
    /\ live' = r.live
    /\ ret' = Ret("open_root", NoKey, None, FALSE, r.root)
    /\ count' = [count EXCEPT !.other = @ + 1]
    /\ chash' = r.hash
    /\ UNCHANGED <<roots, batch, budget, twin, disk, pcf, aha>>

NextDB ==
    \/ \E k \in Keys, value \in DBVals : WBInsert(k, value)
    \/ WBCommit
    \/ \E k \in Keys : DBGet(k)
    \/ \E r \in roots : DBOpenRoot(r)

SpecDB == InitDB /\ [][NextDB]_vars

\* the directory of a DB: the files node and root (no aha_* files without tiers)
Dir(s, d) == [kind |-> "dir", node |-> s.file, root |-> d.root_file]

NoEntry == [kind |-> "none", node |-> <<>>, root |-> <<>>]

\* std::fs::remove_file(path), whose Result DB::open drops: unlink of a directory
\* fails and removes nothing
remove_file(entry) == IF entry.kind = "dir" THEN entry ELSE NoEntry

\* the root a Merkle is opened at when the DB before it was at root current
open_root_kept(journal, current) == current

\* DB::open: the last record of the root file, 0 when it holds none
open_root_cptr(journal, current) ==
    IF Len(journal) >= ROOT_RECORD
    THEN u64_from_le_bytes(SubSeq(journal, Len(journal) - ROOT_RECORD + 1, Len(journal)))
    ELSE 0

\* drop of the DB that was open, then DB::open(path, cfg) on its directory
DB_reopen(s, d, truncate, max) ==
    LET Opened(e) ==
            [s |-> Merkle_new([NodeStore_new(s) EXCEPT !.file = e.node],
                              open_root_cptr(e.root, s.root_cptr)),
             d |-> [staging |-> NoStaging, db_value_cache |-> <<>>, max |-> max, root_file |-> e.root]]
    IN Opened(IF truncate THEN remove_file(Dir(s, d)) ELSE Dir(s, d))

\* the DB dropped and opened again on the same directory; from is the root it was at
DBOpen(truncate) ==
    /\ ~panicked
    /\ count.other < budget.reads
    /\ LET Done(o) ==
                /\ Store(o.s)
                /\ db' = o.d
                /\ ret' = [op |-> "db_open", key |-> NoKey, val |-> None, ok |-> truncate,
                           root |-> o.s.root_cptr, batch |-> NoBatch, from |-> root_cptr]
                /\ live' = Entry(o.s.root_cptr).live
                /\ mpt' = MPT_from(Entry(o.s.root_cptr).live)
                /\ chash' = hash(o.s)
       IN Done(DB_reopen(Cur, db, truncate, db.max))
    /\ count' = [count EXCEPT !.other = @ + 1]
    /\ batch' = NoBatch
    /\ UNCHANGED <<roots, budget, twin, disk, pcf, aha>>

NextOpen ==
    \/ \E k \in Keys, value \in DBVals : WBInsert(k, value)
    \/ WBCommit
    \/ \E r \in roots : DBOpenRoot(r)
    \/ \E truncate \in BOOLEAN : DBOpen(truncate)

SpecOpen == InitDB /\ [][NextOpen]_vars

\* write batches alone: longer batches, no reads
InitBatch ==
    /\ Fresh
    /\ twin = None
    /\ Idle
    /\ db \in {DB_open(max) : max \in ValueCacheSizes}
    /\ budget = [ops |-> MaxBatchOps, reads |-> 0]

NextBatch ==
    \/ \E k \in Keys, value \in DBVals : WBInsert(k, value)
    \/ WBCommit

SpecBatch == InitBatch /\ [][NextBatch]_vars

(***************************************************************************)
(* db.rs, WriteBatch::commit step by step over the medium.  Both files are *)
(* PageCachedFiles (backend/file.rs): a write stays in the dirty pages,    *)
(* flush() writes each dirty page whole with write_at, in the order the    *)
(* HashMap of dirty pages yields them, then set_len(buff_tail).  A crash   *)
(* leaves on the medium what the page writes so far have put there.        *)
(***************************************************************************)
DiskPageSize == 2 ^ DiskPageBits

\* the pages that hold bytes of [from, to)
PagesOf(from, to) ==
    {p \in 0..(to \div DiskPageSize) : from < to /\ p * DiskPageSize < to /\ (p + 1) * DiskPageSize > from}

\* PageCachedFile.dirty of a file flushed up to flushed and appended to up to tail
DirtyPages(flushed, tail) == PagesOf(flushed, tail)

\* the bytes [from, to) of a file are on the medium: flushed earlier, or in a
\* page that the flush in progress has written
Durable(flushed, written, from, to) == PagesOf(IF from > flushed THEN from ELSE flushed, to) \subseteq written

\* the record of the node file that a read at cptr meets
RecordAt(s, cptr) ==
    s.file[CHOOSE i \in 1..Len(s.file) :
                /\ s.file[i].cptr = cptr
                /\ \A j \in (i + 1)..Len(s.file) : s.file[j].cptr # cptr]

\* the slots of a stored node that point at other records
StoredPtrs(node) ==
    CASE node.type = "Short" -> {node.child.ptr}
      [] node.type = "Branch" ->
            {node.children[j].ptr : j \in {i \in 1..(NBRANCH + 1) : node.children[i].kind = "Clean"}}
      [] OTHER -> {}

\* every record reachable from the record at cptr is on the medium
RECURSIVE OnDisk(_, _, _)
OnDisk(s, d, cptr) ==
    /\ HasRecord(s, cptr)
    /\ LET Whole(rec) ==
                /\ Durable(d.node_len, d.node_pages, cptr, cptr + LenPrefix + EncodedLen(rec.node))
                /\ \A c \in StoredPtrs(rec.node) : OnDisk(s, d, c)
       IN Whole(RecordAt(s, cptr))

\* the root identifiers that a reader of the journal on the medium meets: the
\* records written there, and zeros where a page write has extended the file
\* and set_len has not cut it yet
DiskRoots(d, journal) ==
    {u64_from_le_bytes(JournalRecord(journal, i)) :
        i \in {j \in 0..(Len(journal) \div ROOT_RECORD - 1) :
                    Durable(d.root_len, d.root_pages, ROOT_RECORD * j, ROOT_RECORD * (j + 1))}}
    \cup (IF d.root_pages # {} THEN {0} ELSE {})

\* the steps of WriteBatch::commit, in the order of the code
commit_steps_swapped == <<"drain", "root_write", "root_flush", "node_flush">>

commit_steps == <<"drain", "node_flush", "root_write", "root_flush">>

\* the step that follows a step of the commit
step_after(pc) ==
    LET i == CHOOSE j \in 1..Len(commit_steps) : commit_steps[j] = pc
    IN IF i = Len(commit_steps) THEN "idle" ELSE commit_steps[i + 1]

NoDisk == [pc |-> "idle", node_len |-> 0, node_pages |-> {}, root_len |-> 0, root_pages |-> {}]

\* the drain loop and merkle.commit() of WriteBatch::commit
commit_drain(s, d, order) ==
    LET Drained(r) == IF r.s.panicked THEN r ELSE [s |-> commit(r.s), d |-> r.d]
    IN Drained(drain(s, d, order))

\* root_file.write(root_file.tail(), &root.to_le_bytes())
root_write(d, root) == [d EXCEPT !.root_file = @ \o u64_to_le_bytes(root)]

InitSteps ==
    /\ Fresh
    /\ twin = None
    /\ pcf = None
    /\ aha = None
    /\ db \in {DB_open(max) : max \in {0, 8}}
    /\ disk = NoDisk
    /\ budget = [ops |-> MaxStepOps, reads |-> 0]

\* wb.insert(key, value), between two commits
StepInsert(k, value) ==
    /\ disk.pc = "idle"
    /\ WBInsert(k, value)

MerkleFrame == UNCHANGED <<dirty, clean, file, root_cptr, root_dptr, panicked, lru, max_size>>

GhostFrame == UNCHANGED <<mpt, live, roots, count, batch, chash, budget, twin, pcf, aha>>

\* what a step of the commit leaves in ret: the commit returns after its last step
StepRet(pc) == Ret(IF step_after(pc) = "idle" THEN "wb_commit" ELSE "step", NoKey, None, FALSE, root_cptr)

\* wb.commit() entered: the drain loop and merkle.commit()
StepDrain ==
    /\ disk.pc = "idle"
    /\ ~panicked
    /\ NOps < budget.ops
    /\ \E order \in DrainOrders(db) :
          LET Done(r, content) ==
                /\ Store(r.s)
                /\ db' = r.d
                /\ disk' = [disk EXCEPT !.pc = IF r.s.panicked THEN "idle" ELSE step_after("drain")]
                /\ live' = IF r.s.panicked THEN live ELSE content
                /\ mpt' = IF r.s.panicked THEN mpt ELSE MPT_from(content)
                /\ roots' = IF r.s.panicked THEN roots
                            ELSE roots \cup {Root(r.s.root_cptr, content, hash(r.s))}
                /\ chash' = IF r.s.panicked THEN chash ELSE hash(r.s)
          IN Done(commit_drain(Cur, db, order), StagedOver(db, live))
    /\ ret' = [Ret("step", NoKey, None, FALSE, 0) EXCEPT !.batch = batch]
    /\ count' = [count EXCEPT !.commit = @ + 1]
    /\ batch' = NoBatch
    /\ UNCHANGED <<budget, twin, pcf, aha>>

\* node_store.flush(): one dirty page of the node file written to the medium
StepNodePage(p) ==
    /\ disk.pc = "node_flush"
    /\ p \in DirtyPages(disk.node_len, backend_tail(Cur)) \ disk.node_pages
    /\ disk' = [disk EXCEPT !.node_pages = @ \cup {p}]
    /\ ret' = Ret("step", NoKey, None, FALSE, 0)
    /\ UNCHANGED db
    /\ MerkleFrame
    /\ GhostFrame

\* node_store.flush(): set_len(buff_tail) once every dirty page is written
StepNodeLen ==
    /\ disk.pc = "node_flush"
    /\ DirtyPages(disk.node_len, backend_tail(Cur)) \subseteq disk.node_pages
    /\ disk' = [disk EXCEPT !.node_len = backend_tail(Cur), !.node_pages = {},
                            !.pc = step_after("node_flush")]
    /\ ret' = StepRet("node_flush")
    /\ UNCHANGED db
    /\ MerkleFrame
    /\ GhostFrame

\* root_file.write(tail, root): into the dirty page of the journal
StepRootWrite ==
    /\ disk.pc = "root_write"
    /\ db' = root_write(db, root_cptr)
    /\ disk' = [disk EXCEPT !.pc = step_after("root_write")]
    /\ ret' = Ret("step", NoKey, None, FALSE, 0)
    /\ MerkleFrame
    /\ GhostFrame

\* root_file.flush(): one dirty page of the journal written to the medium
StepRootPage(p) ==
    /\ disk.pc = "root_flush"
    /\ p \in DirtyPages(disk.root_len, Len(db.root_file)) \ disk.root_pages
    /\ disk' = [disk EXCEPT !.root_pages = @ \cup {p}]
    /\ ret' = Ret("step", NoKey, None, FALSE, 0)
    /\ UNCHANGED db
    /\ MerkleFrame
    /\ GhostFrame

\* root_file.flush(): set_len(buff_tail)
StepRootLen ==
    /\ disk.pc = "root_flush"
    /\ DirtyPages(disk.root_len, Len(db.root_file)) \subseteq disk.root_pages
    /\ disk' = [disk EXCEPT !.root_len = Len(db.root_file), !.root_pages = {},
                            !.pc = step_after("root_flush")]
    /\ ret' = StepRet("root_flush")
    /\ UNCHANGED db
    /\ MerkleFrame
    /\ GhostFrame

NextSteps ==
    \/ \E k \in Keys, value \in DBVals : StepInsert(k, value)
    \/ StepDrain
    \/ \E p \in DirtyPages(disk.node_len, backend_tail(Cur)) : StepNodePage(p)
    \/ StepNodeLen
    \/ StepRootWrite
    \/ \E p \in DirtyPages(disk.root_len, Len(db.root_file)) : StepRootPage(p)
    \/ StepRootLen

SpecSteps == InitSteps /\ [][NextSteps]_vars

(***************************************************************************)
(* backend/file.rs: PageCachedFile.  A file state f holds the bytes of the *)
(* OS file, file_tail, buff_tail, the clean pages (an LruCache of the lru   *)
(* crate, least recently used first) and the dirty pages.  Offsets are     *)
(* 0-based: byte i of a file is os[i + 1].                                 *)
(***************************************************************************)
PAGE_SIZE == 2 ^ PAGE_BITS

Min(x, y) == IF x < y THEN x ELSE y

Max(x, y) == IF x > y THEN x ELSE y

\* FileExt::write_at(page, ptr): writing past the end extends the file, and the
\* bytes of a hole read as zeros
write_at(os, page, ptr) ==
    [i \in 1..Max(Len(os), ptr + Len(page)) |->
        IF i > ptr /\ i <= ptr + Len(page) THEN page[i - ptr]
        ELSE IF i <= Len(os) THEN os[i] ELSE 0]

\* a set_len that leaves the file as the page writes made it
set_len_keep(os, n) == os

\* File::set_len(n): cut, or extended with zeros
set_len(os, n) == [i \in 1..n |-> IF i <= Len(os) THEN os[i] ELSE 0]

\* LruCache::contains
Lru_contains(c, pid) == \E i \in 1..Len(c) : c[i].pid = pid

\* the page cached under pid
Lru_peek(c, pid) == c[CHOOSE i \in 1..Len(c) : c[i].pid = pid].page

\* LruCache::pop: the cache without pid
Lru_pop(c, pid) == SelectSeq(c, LAMBDA e : e.pid # pid)

\* LruCache::put: pid becomes the most recently used; a full cache loses its
\* least recently used page
Lru_put(c, cap, pid, page) ==
    IF Lru_contains(c, pid) THEN Append(Lru_pop(c, pid), [pid |-> pid, page |-> page])
    ELSE IF Len(c) >= cap THEN Append(Tail(c), [pid |-> pid, page |-> page])
    ELSE Append(c, [pid |-> pid, page |-> page])

\* LruCache::get: pid becomes the most recently used
Lru_get(c, pid) == Append(Lru_pop(c, pid), [pid |-> pid, page |-> Lru_peek(c, pid)])

\* PageCachedFile::new on a file with the bytes os
PageCachedFile_new(os, cache_size) ==
    [os |-> os, file_tail |-> Len(os), buff_tail |-> Len(os), clean |-> <<>>, dirty |-> {},
     cap |-> Max(cache_size \div PAGE_SIZE, 1)]

\* PageCachedFile::load_page: a zeroed page, filled with the bytes read_at yields
load_page(f, pid) ==
    LET ptr == pid * PAGE_SIZE
        size == IF ptr < f.file_tail THEN Min(PAGE_SIZE, f.file_tail - ptr) ELSE 0
    IN [i \in 1..PAGE_SIZE |-> IF i <= size /\ ptr + i <= Len(f.os) THEN f.os[ptr + i] ELSE 0]

IsDirty(f, pid) == \E e \in f.dirty : e.pid = pid

DirtyEntry(f, pid) == CHOOSE e \in f.dirty : e.pid = pid

\* a get_page that looks into the clean pages and the file only
get_page_clean(f, pid) ==
    IF ~Lru_contains(f.clean, pid)
    THEN [f |-> [f EXCEPT !.clean = Lru_put(@, f.cap, pid, load_page(f, pid))],
          page |-> load_page(f, pid)]
    ELSE [f |-> [f EXCEPT !.clean = Lru_get(@, pid)], page |-> Lru_peek(f.clean, pid)]

\* PageCachedFile::get_page: the file it leaves behind and the page
get_page(f, pid) ==
    IF IsDirty(f, pid) THEN [f |-> f, page |-> DirtyEntry(f, pid).page]
    ELSE IF ~Lru_contains(f.clean, pid)
    THEN [f |-> [f EXCEPT !.clean = Lru_put(@, f.cap, pid, load_page(f, pid))],
          page |-> load_page(f, pid)]
    ELSE [f |-> [f EXCEPT !.clean = Lru_get(@, pid)], page |-> Lru_peek(f.clean, pid)]

\* an ensure_dirty_page that copies a clean page and leaves it in the cache
ensure_dirty_page_copy(f, pid) ==
    IF IsDirty(f, pid) THEN f
    ELSE IF Lru_contains(f.clean, pid)
    THEN [f EXCEPT !.dirty = @ \cup {[pid |-> pid, page |-> Lru_peek(f.clean, pid)]}]
    ELSE [f EXCEPT !.dirty = @ \cup {[pid |-> pid, page |-> load_page(f, pid)]}]

\* PageCachedFile::ensure_dirty_page: the file it leaves behind
ensure_dirty_page(f, pid) ==
    IF IsDirty(f, pid) THEN f
    ELSE IF Lru_contains(f.clean, pid)
    THEN [f EXCEPT !.clean = Lru_pop(@, pid),
                   !.dirty = @ \cup {[pid |-> pid, page |-> Lru_peek(f.clean, pid)]}]
    ELSE [f EXCEPT !.dirty = @ \cup {[pid |-> pid, page |-> load_page(f, pid)]}]

\* the loop of PageCachedFile::read
RECURSIVE read_loop(_, _, _, _)
read_loop(f, cur, end, buf) ==
    IF ~(cur < end) THEN [f |-> f, buf |-> buf]
    ELSE LET page_start == (cur \div PAGE_SIZE) * PAGE_SIZE
             copy_end == Min(end, page_start + PAGE_SIZE)
             page_off == cur - page_start
             Got(g) == read_loop(g.f, copy_end, end,
                                 buf \o SubSeq(g.page, page_off + 1, page_off + (copy_end - cur)))
         IN Got(get_page(f, page_start \div PAGE_SIZE))

\* PageCachedFile::read: the file it leaves behind and the bytes
read(f, ptr, len) == read_loop(f, ptr, Min(ptr + len, f.buff_tail), <<>>)

\* the loop of PageCachedFile::write
RECURSIVE write_loop(_, _, _, _)
write_loop(f, ptr, data, off) ==
    IF ~(off < Len(data)) THEN f
    ELSE LET page_start == ((ptr + off) \div PAGE_SIZE) * PAGE_SIZE
             pid == page_start \div PAGE_SIZE
             copy_end == Min(ptr + Len(data), page_start + PAGE_SIZE)
             copy_len == copy_end - (ptr + off)
             page_off == (ptr + off) - page_start
             Patched(page) ==
                [i \in 1..PAGE_SIZE |->
                    IF i > page_off /\ i <= page_off + copy_len THEN data[off + (i - page_off)]
                    ELSE page[i]]
             Put(g) ==
                write_loop([g EXCEPT !.dirty = (@ \ {DirtyEntry(g, pid)})
                                        \cup {[pid |-> pid, page |-> Patched(DirtyEntry(g, pid).page)]}],
                           ptr, data, off + copy_len)
         IN Put(ensure_dirty_page(f, pid))

\* PageCachedFile::write
write(f, ptr, data) ==
    LET Done(g) == [g EXCEPT !.buff_tail = Max(ptr + Len(data), g.buff_tail)]
    IN Done(write_loop(f, ptr, data, 0))

\* the loop of PageCachedFile::flush over the dirty pages as drain() yields them
RECURSIVE flush_loop(_, _)
flush_loop(f, order) ==
    IF order = <<>> THEN f
    ELSE LET Written(e) ==
                flush_loop([f EXCEPT !.os = write_at(@, e.page, e.pid * PAGE_SIZE),
                                     !.clean = Lru_put(@, f.cap, e.pid, e.page),
                                     !.dirty = @ \ {e}],
                           Tail(order))
         IN Written(DirtyEntry(f, Head(order)))

\* PageCachedFile::flush
flush(f, order) ==
    LET Done(g) == [g EXCEPT !.dirty = {}, !.os = set_len(@, g.buff_tail), !.file_tail = g.buff_tail]
    IN Done(flush_loop(f, order))

\* the orders in which HashMap::drain may yield the dirty pages
FlushOrders(f) ==
    LET pids == {e.pid : e \in f.dirty}
    IN {o \in [1..Cardinality(pids) -> pids] : \A i, j \in DOMAIN o : o[i] = o[j] => i = j}

\* the flat zero-initialised array of the tests: a write at ptr
Flat_write(flat, ptr, data) ==
    [i \in 1..Max(Len(flat), ptr + Len(data)) |->
        IF i > ptr /\ i <= ptr + Len(data) THEN data[i - ptr]
        ELSE IF i <= Len(flat) THEN flat[i] ELSE 0]

\* the flat array: the bytes in [ptr, min(ptr + len, tail))
Flat_read(flat, ptr, len) == SubSeq(flat, ptr + 1, Min(ptr + len, Len(flat)))

\* what is written and where, what is read
FileData == {<<>>, <<1>>, <<2, 1, 2>>}

FilePtrs == 0..MaxPtr

ReadLens == {1, PAGE_SIZE + 1}

FileRet(op, ptr, bytes) ==
    [op |-> op, key |-> NoKey, val |-> None, ok |-> FALSE, root |-> 0, batch |-> NoBatch,
     ptr |-> ptr, bytes |-> bytes]

\* the file, the flat array, whether the last operation on the file was a flush,
\* and how many operations of each kind were performed
File(f, flat, flushed, ops, reads) == [f |-> f, flat |-> flat, flushed |-> flushed, ops |-> ops, reads |-> reads]

InitFile ==
    /\ Fresh
    /\ twin = None
    /\ db = None
    /\ disk = None
    /\ aha = None
    /\ pcf \in {File(PageCachedFile_new(<<>>, cache_size), <<>>, FALSE, 0, 0) :
                    cache_size \in {PAGE_SIZE, 2 * PAGE_SIZE + 1}}
    /\ budget = [ops |-> MaxFileOps, reads |-> MaxFileReads]

FileFrame ==
    UNCHANGED <<dirty, clean, file, root_cptr, root_dptr, panicked, lru, max_size, mpt, live, roots, count,
                batch, chash, budget, twin, db, disk, aha>>

\* f.write(ptr, data)
FileWrite(ptr, data) ==
    /\ pcf.ops < budget.ops
    /\ pcf' = File(write(pcf.f, ptr, data), Flat_write(pcf.flat, ptr, data), FALSE,
                   pcf.ops + 1, pcf.reads)
    /\ ret' = FileRet("file_write", ptr, data)
    /\ FileFrame

\* f.read(ptr, len)
FileRead(ptr, len) ==
    /\ pcf.reads < budget.reads
    /\ LET Done(r) ==
            /\ pcf' = File(r.f, pcf.flat, pcf.flushed, pcf.ops, pcf.reads + 1)
            /\ ret' = FileRet("file_read", ptr, r.buf)
       IN Done(read(pcf.f, ptr, len))
    /\ FileFrame

\* f.flush()
FileFlush ==
    /\ pcf.ops < budget.ops
    /\ \E order \in FlushOrders(pcf.f) :
            pcf' = File(flush(pcf.f, order), pcf.flat, TRUE, pcf.ops + 1, pcf.reads)
    /\ ret' = FileRet("file_flush", 0, <<>>)
    /\ FileFrame

\* drop(f), then PageCachedFile::new on the same path: what was not flushed is
\* lost, and the flat array starts again from the bytes of the file
FileReopen ==
    /\ pcf.ops < budget.ops
    /\ pcf' = File(PageCachedFile_new(pcf.f.os, pcf.f.cap * PAGE_SIZE), pcf.f.os, pcf.flushed,
                   pcf.ops + 1, pcf.reads)
    /\ ret' = FileRet("file_reopen", 0, <<>>)
    /\ FileFrame

NextFile ==
    \/ \E ptr \in FilePtrs, data \in FileData : FileWrite(ptr, data)
    \/ \E ptr \in FilePtrs, len \in ReadLens : FileRead(ptr, len)
    \/ FileFlush
    \/ FileReopen

SpecFile == InitFile /\ [][NextFile]_vars

(***************************************************************************)
(* aha.rs: AggregatedHashArray.  An AHA state a holds aha_len, one backend *)
(* per tier (the bytes of its file: a PageCachedFile reads and writes as   *)
(* the flat array does), recycled and pending_recycle, and whether the     *)
(* build has debug assertions.  Tier idx (from 0) is element idx + 1.      *)
(***************************************************************************)
\* (33 + 1): the bytes a record keeps for each of its entries
AHA_ENTRY == 34

\* the tiers of the AHA: capacities in ascending order
AhaLens == <<2, 3>>

\* AggregatedHashArray::new
AggregatedHashArray_new(lens, debug) ==
    [aha_len |-> lens,
     backends |-> [i \in 1..Len(lens) |-> <<>>],
     recycled |-> [i \in 1..Len(lens) |-> <<>>],
     pending_recycle |-> [i \in 1..Len(lens) |-> <<>>],
     debug |-> debug]

\* a selection that takes the biggest tier that fits
aha_index_biggest(a, len) ==
    LET fit == {i \in 0..(Len(a.aha_len) - 1) : a.aha_len[i + 1] >= len}
    IN IF fit = {} THEN Len(a.aha_len) ELSE CHOOSE i \in fit : \A j \in fit : i >= j

\* AggregatedHashArray::aha_index
aha_index(a, len) ==
    LET fit == {i \in 0..(Len(a.aha_len) - 1) : a.aha_len[i + 1] >= len}
    IN IF fit = {} THEN Len(a.aha_len) ELSE CHOOSE i \in fit : \A j \in fit : i <= j

\* AggregatedHashArray::new_cptr: the AHA it leaves behind and the slot
new_cptr(a, idx) ==
    IF a.recycled[idx + 1] # <<>>
    THEN [a |-> [a EXCEPT !.recycled[idx + 1] = SubSeq(@, 1, Len(@) - 1)],
          cptr |-> a.recycled[idx + 1][Len(a.recycled[idx + 1])]]
    ELSE [a |-> a, cptr |-> Len(a.backends[idx + 1])]

\* the loop of write_aha: (hash.len() as u8) and the bytes of each item
RECURSIVE encode_items(_)
encode_items(hashs) ==
    IF hashs = <<>> THEN <<>>
    ELSE <<Len(Head(hashs)) % 256>> \o Head(hashs) \o encode_items(Tail(hashs))

\* a resize that pads a short record and leaves a long one as it is
resize_pad(bytes, n) == IF Len(bytes) >= n THEN bytes ELSE bytes \o [i \in 1..(n - Len(bytes)) |-> 0]

\* Vec::resize(n, 0): cut, or padded with zeros
resize(bytes, n) == [i \in 1..n |-> IF i <= Len(bytes) THEN bytes[i] ELSE 0]

\* a write_aha that schedules the old slot whatever old_len is
release_always(a, old_len, old_cptr) ==
    [a |-> [a EXCEPT !.pending_recycle[aha_index(a, old_len) + 1] = Append(@, old_cptr)],
     panic |-> FALSE]

\* write_aha: if old_len > 0 the old slot goes to pending_recycle[idx]; an idx
\* past the tiers is an index out of bounds
release(a, old_len, old_cptr) ==
    IF old_len > 0
    THEN IF aha_index(a, old_len) >= Len(a.aha_len) THEN [a |-> a, panic |-> TRUE]
         ELSE [a |-> [a EXCEPT !.pending_recycle[aha_index(a, old_len) + 1] = Append(@, old_cptr)],
               panic |-> FALSE]
    ELSE [a |-> a, panic |-> FALSE]

\* AggregatedHashArray::write_aha: the AHA it leaves behind, the CleanPtr it
\* returns, the tier it wrote to (Len(aha_len) when none), whether it panicked
AHA_write_aha(a, hashs, old_len, old_cptr) ==
    LET Write(a1, idx) ==
            LET max_bytes == a1.aha_len[idx + 1] * AHA_ENTRY
                Put(n, encoded) ==
                    IF a1.debug /\ (Len(encoded) > max_bytes \/ n.cptr % max_bytes # 0)
                    THEN [a |-> n.a, cptr |-> n.cptr, idx |-> idx, panic |-> TRUE]
                    ELSE [a |-> [n.a EXCEPT !.backends[idx + 1] =
                                        Flat_write(@, n.cptr, resize(encoded, max_bytes))],
                          cptr |-> n.cptr, idx |-> idx, panic |-> FALSE]
            IN Put(new_cptr(a1, idx), encode_items(hashs))
        Released(r) ==
            IF r.panic THEN [a |-> r.a, cptr |-> 0, idx |-> Len(a.aha_len), panic |-> TRUE]
            ELSE IF hashs = <<>>
            THEN [a |-> r.a, cptr |-> old_cptr, idx |-> Len(a.aha_len), panic |-> FALSE]
            ELSE IF aha_index(r.a, Len(hashs) % 256) >= Len(a.aha_len)
            THEN [a |-> r.a, cptr |-> 0, idx |-> Len(a.aha_len), panic |-> FALSE]
            ELSE Write(r.a, aha_index(r.a, Len(hashs) % 256))
    IN Released(release(a, old_len, old_cptr))

\* the loop of read_aha over the bytes read: a slice past the end of buf panics
RECURSIVE read_items(_, _, _)
read_items(buf, off, n) ==
    IF n = 0 THEN [panic |-> FALSE, hashs |-> <<>>]
    ELSE IF off + 1 > Len(buf) \/ off + 1 + buf[off + 1] > Len(buf)
    THEN [panic |-> TRUE, hashs |-> <<>>]
    ELSE LET Rest(r) ==
                [panic |-> r.panic,
                 hashs |-> IF r.panic THEN <<>>
                           ELSE <<SubSeq(buf, off + 2, off + 1 + buf[off + 1])>> \o r.hashs]
         IN Rest(read_items(buf, off + 1 + buf[off + 1], n - 1))

\* AggregatedHashArray::read_aha: aha_len[idx] with idx past the tiers panics
AHA_read_aha(a, len, ptr) ==
    IF aha_index(a, len) >= Len(a.aha_len) THEN [panic |-> TRUE, hashs |-> <<>>]
    ELSE read_items(Flat_read(a.backends[aha_index(a, len) + 1], ptr,
                              a.aha_len[aha_index(a, len) + 1] * AHA_ENTRY),
                    0, len)

\* AggregatedHashArray::commit
AHA_commit(a) ==
    [a EXCEPT !.recycled = [i \in 1..Len(a.aha_len) |-> a.recycled[i] \o a.pending_recycle[i]],
              !.pending_recycle = [i \in 1..Len(a.aha_len) |-> <<>>]]

\* make_hash(seed, len) of the tests
make_hash(seed, len) == [i \in 1..len |-> (seed + (i - 1)) % 256]

\* reference items: an inlined child, a child hashed (0xa0 and 32 bytes), and
\* the RLP of a value of 39 bytes in slot 16
ItemInline == make_hash(16, 1)

ItemDigest == make_hash(32, HASH_SIZE + 1)

ItemValue == make_hash(48, 40)

\* the arrays of the branches written: two hashed children; an inlined child, a
\* hashed child and a value; a hashed child and a value; four hashed children;
\* and the empty array, which only a direct caller of the AHA passes
HashArrays ==
    {<<ItemDigest, ItemDigest>>, <<ItemInline, ItemDigest, ItemValue>>, <<ItemDigest, ItemValue>>,
     <<ItemDigest, ItemDigest, ItemDigest, ItemDigest>>, <<>>}

\* Branch::new(): aha_len 0 and aha_ptr 0, and no child
NewBranch == [len |-> 0, ptr |-> 0, hashs |-> <<>>]

\* the AHA; the (aha_len, aha_ptr) of the branches written so far, which the
\* node file keeps and any root opened later hands back as old_len and old_ptr;
\* the slots released with old_len > 0 ever, and since the last commit; the
\* number of writes and of commits
Aha(a, nodes, released, since, writes, commits) ==
    [a |-> a, nodes |-> nodes, released |-> released, since |-> since, writes |-> writes,
     commits |-> commits]

AhaRet(op, hashs, old, ptr, idx, node) ==
    [op |-> op, key |-> NoKey, val |-> None, ok |-> FALSE, root |-> 0, batch |-> NoBatch,
     hashs |-> hashs, old |-> old, ptr |-> ptr, idx |-> idx, node |-> node]

InitAha ==
    /\ Fresh
    /\ twin = None
    /\ db = None
    /\ disk = None
    /\ pcf = None
    /\ aha \in {Aha(AggregatedHashArray_new(AhaLens, debug), {}, {}, {}, 0, 0) : debug \in BOOLEAN}
    /\ budget = [ops |-> MaxAhaOps, reads |-> 1]

AhaFrame ==
    UNCHANGED <<dirty, clean, file, root_cptr, root_dptr, lru, max_size, mpt, live, roots,
                batch, chash, budget, twin, db, disk, pcf>>

\* the slot an old (aha_len, aha_ptr) names, if it names one
OldSlot(a, old) == IF old.len > 0 THEN {[idx |-> aha_index(a, old.len), ptr |-> old.ptr]} ELSE {}

\* NodeStore::write_aha of a branch whose present children carry the items
\* hashs and whose node carried old: bnode.aha_len = hashs.len() as u8 and
\* bnode.aha_ptr = aha.write_aha(hashs, old_len, old_ptr); node is the
\* (aha_len, aha_ptr) the branch is persisted with, next to its items
NodeStore_write_aha(a, hashs, old) ==
    LET Written(r) ==
            [a |-> r.a, cptr |-> r.cptr, idx |-> r.idx, panic |-> r.panic,
             node |-> [len |-> Len(hashs) % 256, ptr |-> r.cptr, hashs |-> hashs]]
    IN Written(AHA_write_aha(a, hashs, old.len, old.ptr))

\* a load_aha that takes the items it reads without validating them
NodeStore_load_aha_unchecked(a, node) ==
    IF node.len > 0
    THEN LET Loaded(r) ==
                IF r.panic \/ Len(r.hashs) # node.len \/ Len(r.hashs) # Len(node.hashs)
                THEN [panic |-> TRUE, res |-> "panic"]
                ELSE [panic |-> FALSE, res |-> "hit"]
         IN Loaded(AHA_read_aha(a, node.len, node.ptr))
    ELSE [panic |-> FALSE, res |-> "miss"]

\* NodeStore::load_aha of a persisted branch (every present child is Ptr(Clean),
\* so cnt_needed > 0): "hit" when the items read give the branch its hash,
\* "miss" when the caller is left to load_children_hash
NodeStore_load_aha(a, node) ==
    IF node.len > 0
    THEN LET Loaded(r) ==
                IF r.panic \/ Len(r.hashs) # node.len \/ Len(r.hashs) # Len(node.hashs)
                THEN [panic |-> TRUE, res |-> "panic"]
                ELSE [panic |-> FALSE, res |-> IF r.hashs = node.hashs THEN "hit" ELSE "miss"]
         IN Loaded(AHA_read_aha(a, node.len, node.ptr))
    ELSE [panic |-> FALSE, res |-> "miss"]

\* NodeStore::write_aha of a branch whose node carried old: a new branch, or the
\* copy of a branch of a root committed earlier
AhaWrite(hashs, old) ==
    /\ ~panicked
    /\ aha.writes + aha.commits < budget.ops
    /\ LET Done(r) ==
            /\ panicked' = r.panic
            /\ aha' = Aha(r.a,
                          IF r.panic THEN aha.nodes ELSE aha.nodes \cup {r.node},
                          aha.released \cup OldSlot(aha.a, old),
                          aha.since \cup OldSlot(aha.a, old),
                          aha.writes + 1, aha.commits)
            /\ ret' = AhaRet("aha_write", hashs, old, r.cptr, r.idx, r.node)
       IN Done(NodeStore_write_aha(aha.a, hashs, old))
    /\ UNCHANGED count
    /\ AhaFrame

\* NodeStore::commit: aha.commit()
AhaCommit ==
    /\ ~panicked
    /\ aha.writes + aha.commits < budget.ops
    /\ aha' = Aha(AHA_commit(aha.a), aha.nodes, aha.released, {}, aha.writes, aha.commits + 1)
    /\ ret' = AhaRet("aha_commit", <<>>, NewBranch, 0, 0, NewBranch)
    /\ UNCHANGED <<panicked, count>>
    /\ AhaFrame

\* NodeStore::cow_clean of a branch persisted earlier: load_aha on its node
AhaLoad(node) ==
    /\ ~panicked
    /\ count.other < budget.reads
    /\ LET Done(r) ==
            /\ panicked' = r.panic
            /\ ret' = [AhaRet("aha_load", node.hashs, NewBranch, node.ptr, 0, node) EXCEPT !.val = r.res]
       IN Done(NodeStore_load_aha(aha.a, node))
    /\ count' = [count EXCEPT !.other = @ + 1]
    /\ UNCHANGED aha
    /\ AhaFrame

NextAha ==
    \/ \E hashs \in HashArrays, old \in {NewBranch} \cup aha.nodes : AhaWrite(hashs, old)
    \/ AhaCommit
    \/ \E node \in aha.nodes : AhaLoad(node)

SpecAha == InitAha /\ [][NextAha]_vars

(***************************************************************************)
(* The committed trie read as a trie of the reference                      *)
(***************************************************************************)
\* the node of the reference that the clean node at cptr stands for
RECURSIVE ToMPT(_, _)
ToMPT(s, cptr) ==
    LET Read(node) ==
            CASE node.type = "Short" ->
                    IF Last(node.path) = NBRANCH
                    THEN MLeaf(Take(node.path, Len(node.path) - 1), get_clean(s, node.child.ptr).value)
                    ELSE MExt(node.path, ToMPT(s, node.child.ptr))
              [] node.type = "Branch" ->
                    MBranch([j \in 1..NBRANCH |->
                                IF node.children[j].kind = "None" THEN MNil ELSE ToMPT(s, node.children[j].ptr)],
                            IF node.children[NBRANCH + 1].kind = "None" THEN None
                            ELSE Some(get_clean(s, node.children[NBRANCH + 1].ptr).value))
              [] OTHER -> MNil
    IN Read(get_clean(s, cptr))

CommittedMPT(s) == IF s.root_cptr = 0 THEN MNil ELSE ToMPT(s, s.root_cptr)

\* C1: after every commit the committed trie has the node structure of the
\* reference MPT that received the same inserts and deletes in the same order,
\* and hash() is the root hash of that reference.
C1_CommitMatchesReference ==
    ret.op = "commit" =>
        /\ ~panicked
        /\ CommittedMPT(Cur) = mpt
        /\ hash(Cur) = MPT_root_hash(mpt)

\* C1 witness: a commit of a batch that deleted K2 from a committed trie
\* holding K1 and K2, where K1 is a proper prefix of K2, so that the branch
\* under the shared Short collapsed
C1_Witness ==
    /\ ret.op = "commit"
    /\ root_cptr # 0
    /\ live[K1] # None
    /\ live[K2] = None
    /\ \E r \in roots : r.root # root_cptr /\ r.live[K1] # None /\ r.live[K2] # None

\* C2: every insert runs to completion without an assertion failure, and
\* afterwards find returns the value and the extra of the last insert of every
\* key and none for every key never inserted (histories of inserts and commits).
C2_InsertCompletes ==
    (ret.op = "insert" /\ count.delete = 0) =>
        /\ ~panicked
        /\ \A k \in Keys : find(Cur, k) = live[k]

\* db.open_root(root) followed by db.get(key): what the get returns
OpenedGet(root_ptr, key) ==
    LET Opened(o) == DB_get(o.s, o.d, key).res
    IN Opened(DB_open_root(Cur, db, root_ptr))

\* Option<Value>::map(|v| v.value)
ValueOf(optv) == IF optv = None THEN None ELSE Some(optv[1].value)

\* C3: every committed root R1, opened by a Merkle on a new store over the
\* same node file or by DB.open_root, reads for every key the value the key
\* had when R1 was committed, whatever was committed later and whatever the
\* clean cache and the value cache hold.
C3_HistoricalRootsImmutable ==
    \A r \in roots : \A k \in Keys :
        /\ find(Merkle_new(NodeStore_new(Cur), r.root), k) = r.live[k]
        /\ ~panicked => OpenedGet(r.root, k) = ValueOf(r.live[k])

\* the part of C3 below the DB: a Merkle on any committed root, over the same
\* store or over a new store on the same node file, finds for every key the
\* value as of that root, and a find after the opening of a root returns it
CommittedRootsReadable ==
    /\ \A r \in roots : \A k \in Keys :
            /\ find(Merkle_new(Cur, r.root), k) = r.live[k]
            /\ find(Merkle_new(NodeStore_new(Cur), r.root), k) = r.live[k]
    /\ (ret.op = "find" /\ ~panicked) => ret.val = live[ret.key]

\* C4: delete(k) returns true exactly when find(k) returned a value before it;
\* afterwards find(k) is none and find of every other key is what it was before.
C4_DeleteExact ==
    [][\A k \in Keys : (ret'.op = "delete" /\ ret'.key = k) =>
            /\ ~panicked'
            /\ ret'.ok = (find(Cur, k) # None)
            /\ find(Succ, k) = None
            /\ \A j \in Keys \ {k} : find(Succ, j) = find(Cur, j)]_vars

\* C4 witness: a delete removed K2 from a trie with uncommitted changes and
\* left K1 and K3 in it
C4_Witness ==
    /\ ret.op = "delete"
    /\ ret.ok
    /\ ret.key = K2
    /\ batch.insert > 0
    /\ live[K1] # None
    /\ live[K3] # None

\* the shape of the trie below a child slot
RECURSIVE WellShaped(_, _)
WellShaped(s, ch) ==
    LET Shape(node) ==
            CASE node.type = "Branch" ->
                    /\ Cardinality(PresentSlots(node)) >= 2
                    /\ \A j \in PresentSlots(node) : WellShaped(s, node.children[j + 1])
              [] node.type = "Short" ->
                    /\ Len(node.path) > 0
                    /\ \A m \in 1..(Len(node.path) - 1) : node.path[m] # NBRANCH
                    /\ PeekNode(s, node.child).type # "Short"
                    /\ (Last(node.path) = NBRANCH => PeekNode(s, node.child).type = "Value")
                    /\ WellShaped(s, node.child)
              [] OTHER -> TRUE
    IN Shape(PeekNode(s, ch))

\* C5: in the live trie no reachable Branch has fewer than two present slots,
\* no Short has a Short as its child, every Short has a non-empty path, nibble
\* 16 is only the last nibble of a path and then the child is a Value.
C5_LiveTrieShape ==
    (~panicked /\ ~(root_cptr = 0 /\ root_dptr = None)) => WellShaped(Cur, RootPtr(Cur))

\* C5 witness: the delete of K3 from a trie holding K2 and K3 collapsed the
\* branch into the Short above it
C5_Witness ==
    /\ ret.op = "delete"
    /\ ret.ok
    /\ ret.key = K3
    /\ live[K1] = None
    /\ live[K2] # None
    /\ PeekNode(Cur, RootPtr(Cur)).type = "Short"
    /\ Len(PeekNode(Cur, RootPtr(Cur)).path) = 5

\* C6: hash() is the hash it returned right after the last commit (the hash of
\* the empty trie before the first commit), whatever was inserted or deleted
\* since.
C6_HashIgnoresUncommitted == hash(Cur) = chash

\* C6 witness: uncommitted inserts or deletes changed the content of a
\* committed trie that is not empty
C6_Witness ==
    /\ ~panicked
    /\ root_cptr # 0
    /\ root_dptr # None
    /\ batch.insert > 0
    /\ batch.removed > 0
    /\ live # Entry(root_cptr).live

\* C7: commit returns 0 exactly when the committed trie holds no key; then
\* find returns none for every key and hash() is the hash of the empty trie.
C7_ZeroRootIffEmpty ==
    ret.op = "commit" =>
        /\ ~panicked
        /\ ret.root = root_cptr
        /\ (ret.root = 0) = (\A k \in Keys : live[k] = None)
        /\ ret.root = 0 => /\ \A k \in Keys : find(Cur, k) = None
                           /\ hash(Cur) = EmptyHash

\* C7 witness: a batch that deleted every key of a committed trie was committed
C7_Witness ==
    /\ ret.op = "commit"
    /\ ret.root = 0
    /\ ret.batch.removed > 0
    /\ \E r \in roots : r.root # 0

\* C8: the commit of a batch without an insert whose deletes were all of
\* missing keys returns the root identifier it started from, appends nothing
\* to the node file and leaves hash() as it was.
C8_NoopCommit ==
    [][(ret'.op = "commit" /\ batch.insert = 0 /\ batch.removed = 0) =>
            /\ ~panicked'
            /\ ret'.root = root_cptr
            /\ root_cptr' = root_cptr
            /\ root_dptr' = None
            /\ file' = file
            /\ hash(Succ) = hash(Cur)]_vars

\* C8 witness: a commit of a batch that only deleted a missing key from a
\* committed trie that is not empty
C8_Witness ==
    /\ ret.op = "commit"
    /\ ret.batch.insert = 0
    /\ ret.batch.removed = 0
    /\ ret.batch.missed > 0
    /\ root_cptr # 0

\* C9: two tries that received the same inserts, deletes and commits with
\* different extras have equal hash() after every commit and after a reload
\* from the node file, and find on each returns the value with its own extra.
C9_ExtraNeverHashed ==
    /\ ret.op \in {"commit", "reopen"} => (~panicked /\ hash(Cur) = hash(twin.s))
    /\ ~panicked => \A k \in Keys : /\ find(Cur, k) = live[k]
                                    /\ find(twin.s, k) = twin.live[k]

\* C9 witness: both tries were reloaded from their node files at a committed
\* root under which a key has the same value and different extras
C9_Witness ==
    /\ ret.op = "reopen"
    /\ root_cptr # 0
    /\ clean = {}
    /\ \E k \in Keys : /\ live[k] # None
                       /\ twin.live[k] # None
                       /\ live[k][1].value = twin.live[k][1].value
                       /\ live[k][1].extra # twin.live[k][1].extra

\* C10: WriteBatch.insert leaves every DB.get and DB.hash() as they were; after
\* a WriteBatch.commit that returns, DB.get returns the staged value of every
\* staged key and what it returned before for every other key.
C10_StagingInvisibleUntilCommit ==
    [][/\ ret'.op = "wb_insert" =>
            /\ hash(Succ) = hash(Cur)
            /\ \A k \in Keys : DB_get(Succ, db', k).res = DB_get(Cur, db, k).res
       /\ (ret'.op = "wb_commit" /\ ~panicked') =>
            \A k \in Keys : DB_get(Succ, db', k).res =
                                IF db.staging[k] # None THEN db.staging[k] ELSE DB_get(Cur, db, k).res]_vars

\* C11: a WriteBatch.commit leaves the Merkle as the inserts of the staged
\* keys in the order the caller supplied them (each key with the value of its
\* last insert) and a commit leave it: the same outcome, the same root
\* identifier, the same node file, and the last inserted value under every key.
C11_BatchAppliedInOrder ==
    [][ret'.op = "wb_commit" =>
            LET Same(r) ==
                    /\ panicked' = r.s.panicked
                    /\ ~panicked' => /\ root_cptr' = r.s.root_cptr
                                     /\ file' = r.s.file
                                     /\ \A k \in Staged(db) :
                                            find(Succ, k) = Some(Value_new(db.staging[k][1], <<>>))
            IN Same(WriteBatch_commit(Cur, db, batch.order))]_vars

\* C12: at every point of a WriteBatch::commit, between any two of its steps
\* included, every root identifier that the root journal on the medium holds has
\* all the node records reachable from it in the node file on the medium
C12_JournalRootsOnDisk ==
    disk # None => \A r \in DiskRoots(disk, db.root_file) : r = 0 \/ OnDisk(Cur, disk, r)

\* a later commit is writing the pages of the node file, some written and some
\* not, while the journal on the medium holds the root of an earlier commit
C12_Witness ==
    /\ disk # None
    /\ disk.pc = "node_flush"
    /\ disk.node_pages # {}
    /\ ~(DirtyPages(disk.node_len, backend_tail(Cur)) \subseteq disk.node_pages)
    /\ \E r \in DiskRoots(disk, db.root_file) : r # 0

\* C13: every WriteBatch::commit appends exactly one 8-byte little-endian record
\* holding the root it returns to the root journal; DB::open sets the current root
\* to the last record (0 when there is none), so that after commits and open_root
\* calls a reopened DB reads from the root of the last commit, not from the root
\* last passed to open_root
C13_ReopenAtLastCommit ==
    [][/\ (ret'.op = "wb_commit" /\ ~panicked') =>
                db'.root_file = db.root_file \o u64_to_le_bytes(ret'.root)
       /\ ret'.op = "db_open" =>
                IF db.root_file = <<>>
                THEN root_cptr' = 0 /\ \A k \in Keys : DB_get(Succ, db', k).res = None
                ELSE \E r \in roots :
                        /\ JournalRecord(db.root_file, Len(db.root_file) \div ROOT_RECORD - 1)
                                = u64_to_le_bytes(r.root)
                        /\ root_cptr' = r.root
                        /\ \A k \in Keys : DB_get(Succ, db', k).res = ValueOf(r.live[k])]_vars

\* a DB reopened at the root of a commit while it had been moved to another root
C13_Witness ==
    /\ ret.op = "db_open"
    /\ ret.root # 0
    /\ ret.from # ret.root
    /\ db.root_file # <<>>

\* C14: DB::open with truncate = true on a directory that holds a committed
\* database gives a fresh DB: current root 0, get none for every key, the hash of
\* the empty trie
C14_TruncateGivesFreshDB ==
    [][(ret'.op = "db_open" /\ ret'.ok /\ db.root_file # <<>>) =>
            /\ root_cptr' = 0
            /\ hash(Succ) = EmptyHash
            /\ \A k \in Keys : DB_get(Succ, db', k).res = None]_vars

\* C15: for every value-cache budget, one too small for any entry included,
\* every DB::get returns what a DB with the value cache disabled returns at the
\* same point: nothing cached under one root is returned under another, and no
\* value cached before a commit that overwrites the key is returned after it
C15_ValueCacheCoherent ==
    [][\A k \in Keys :
            (ret'.op = "get" /\ ret'.key = k) =>
                ret'.val = DB_get(Cur, [db EXCEPT !.max = 0], k).res]_vars

\* C16: for every capacity of at least one page, read(ptr, len) of a
\* PageCachedFile returns what a flat zero-initialised array holds in
\* [ptr, min(ptr + len, tail)), tail the largest ptr + len written so far or the
\* initial length of the file: writes are visible before any flush, gaps read as
\* zeros, reads across pages are contiguous, a read at or past the tail is empty
C16_ReadsAsFlatArray ==
    pcf # None =>
        /\ pcf.f.buff_tail = Len(pcf.flat)
        /\ \A ptr \in 0..(MaxPtr + 3), len \in ReadLens \cup {0, MaxPtr + 4} :
                read(pcf.f, ptr, len).buf = Flat_read(pcf.flat, ptr, len)

\* unflushed bytes behind a gap that spans a whole page, in a file whose clean
\* cache holds one page
C16_Witness ==
    /\ pcf # None
    /\ pcf.f.cap = 1
    /\ pcf.f.dirty # {}
    /\ pcf.f.clean # <<>>
    /\ pcf.f.buff_tail > pcf.f.file_tail + PAGE_SIZE
    /\ \E p \in 0..MaxPtr : /\ (p + 1) * PAGE_SIZE <= pcf.f.buff_tail
                            /\ \A i \in 1..PAGE_SIZE : pcf.flat[p * PAGE_SIZE + i] = 0

\* C17: after flush() the OS file is as long as the logical tail and holds
\* exactly the logical content; a PageCachedFile reopened on it reports the same
\* tail and returns the same bytes; a write over a part of a flushed range
\* changes the bytes it covers and no others
C17_FlushPersists ==
    [][/\ ret'.op = "file_flush" => pcf'.f.os = pcf.flat
       /\ (ret'.op = "file_reopen" /\ pcf.flushed) =>
                /\ pcf'.f.buff_tail = Len(pcf.flat)
                /\ \A ptr \in 0..(MaxPtr + 3) :
                        read(pcf'.f, ptr, MaxPtr + 4).buf = Flat_read(pcf.flat, ptr, MaxPtr + 4)
       /\ ret'.op = "file_write" =>
                \A i \in 0..(Len(pcf.flat) - 1) :
                    (i < ret'.ptr \/ i >= ret'.ptr + Len(ret'.bytes)) =>
                        read(pcf'.f, i, 1).buf = <<pcf.flat[i + 1]>>]_vars

\* a write into the middle of the bytes that a flush has put into the OS file
C17_Witness ==
    /\ pcf # None
    /\ ret.op = "file_write"
    /\ ret.bytes # <<>>
    /\ ret.ptr > 0
    /\ ret.ptr + Len(ret.bytes) < pcf.f.file_tail
    /\ pcf.f.os # pcf.flat

\* C18: for any branch the trie can produce whose number N of present children
\* is at most the capacity of the biggest tier (a value in slot 16 counts,
\* whatever the length of its reference item), read_aha(N, write_aha(items,
\* old_len, old_ptr)) returns the items
C18_AhaRoundTrip ==
    [][(ret'.op = "aha_write" /\ Len(ret'.hashs) <= AhaLens[Len(AhaLens)]
            /\ (ret'.old.len = 0 \/ ret'.old.len <= AhaLens[Len(AhaLens)])) =>
            /\ ~panicked'
            /\ AHA_read_aha(aha'.a, Len(ret'.hashs), ret'.ptr) = [panic |-> FALSE, hashs |-> ret'.hashs]]_vars

\* C19: a write_aha with old_len = 0 schedules no slot for recycling; once a
\* tier has had its first write, which lands at offset 0, a write_aha into the
\* tier receives offset 0 only if a write_aha with old_len > 0 released it
C19_FirstWriteNotRecycled ==
    [][(ret'.op = "aha_write" /\ ~panicked') =>
            /\ ret'.old.len = 0 => aha'.a.pending_recycle = aha.a.pending_recycle
            /\ (ret'.idx < Len(AhaLens) /\ ret'.ptr = 0 /\ aha.a.backends[ret'.idx + 1] # <<>>) =>
                    [idx |-> ret'.idx, ptr |-> 0] \in aha.released]_vars

\* after a first write and a commit, the write of a new branch into the same
\* tier lands past offset 0
C19_Witness ==
    /\ aha # None
    /\ ret.op = "aha_write"
    /\ ~panicked
    /\ ret.old.len = 0
    /\ ret.idx < Len(AhaLens)
    /\ ret.ptr # 0
    /\ aha.commits > 0
    /\ aha.a.recycled[ret.idx + 1] = <<>>

\* C20: a slot released by write_aha(_, old_len > 0, old_ptr) is not returned
\* by a write_aha before the next commit() of the AHA; after that commit a
\* write_aha into the tier of the slot takes a released slot, not the tail
C20_RecycleAfterCommit ==
    [][(ret'.op = "aha_write" /\ ~panicked' /\ ret'.idx < Len(AhaLens)) =>
            /\ [idx |-> ret'.idx, ptr |-> ret'.ptr] \notin aha'.since
            /\ aha.a.recycled[ret'.idx + 1] # <<>> =>
                    \E i \in 1..Len(aha.a.recycled[ret'.idx + 1]) :
                        aha.a.recycled[ret'.idx + 1][i] = ret'.ptr]_vars

\* the tier (from 1) of the smallest configured capacity that holds n items
SmallestTier(n) ==
    CHOOSE i \in 1..Len(AhaLens) :
        /\ AhaLens[i] >= n
        /\ \A j \in 1..Len(AhaLens) : AhaLens[j] >= n => AhaLens[i] <= AhaLens[j]

\* C21: a returning write_aha of n items (1 <= n <= the biggest capacity) with
\* old_len = 0 and an empty recycle pool returns the tail of the smallest tier
\* whose capacity cap is at least n, leaves the bytes below that tail as they
\* were, advances that tail by cap * 34 and leaves every other tier as it was
C21_WriteAtTailOfSmallestTier ==
    [][(/\ ret'.op = "aha_write"
        /\ ~panicked'
        /\ ret'.old.len = 0
        /\ Len(ret'.hashs) \in 1..AhaLens[Len(AhaLens)]
        /\ \A i \in 1..Len(AhaLens) : aha.a.recycled[i] = <<>>) =>
            /\ ret'.idx + 1 = SmallestTier(Len(ret'.hashs))
            /\ ret'.ptr = Len(aha.a.backends[SmallestTier(Len(ret'.hashs))])
            /\ Len(aha'.a.backends[SmallestTier(Len(ret'.hashs))])
                    = ret'.ptr + (AhaLens[SmallestTier(Len(ret'.hashs))] * (33 + 1))
            /\ SubSeq(aha'.a.backends[SmallestTier(Len(ret'.hashs))], 1, ret'.ptr)
                    = aha.a.backends[SmallestTier(Len(ret'.hashs))]
            /\ \A i \in 1..Len(AhaLens) :
                    i # SmallestTier(Len(ret'.hashs)) => aha'.a.backends[i] = aha.a.backends[i]]_vars

\* a second record in the first tier and a record in the second tier
C21_Witness ==
    /\ aha # None
    /\ ret.op = "aha_write"
    /\ ~panicked
    /\ ret.old.len = 0
    /\ Len(ret.hashs) = AhaLens[1]
    /\ ret.ptr = AhaLens[1] * (33 + 1)
    /\ Len(aha.a.backends[1]) = 2 * (AhaLens[1] * (33 + 1))
    /\ Len(aha.a.backends[2]) = AhaLens[2] * (33 + 1)
    /\ \A i \in 1..Len(AhaLens) : aha.a.recycled[i] = <<>>

\* C22: a returning write_aha of an empty array, or of an array with more items
\* than the capacity of the biggest tier, returns 0 and leaves the bytes of
\* every tier as they were
C22_ZeroWhenEmptyOrTooLong ==
    [][(/\ ret'.op = "aha_write"
        /\ ~panicked'
        /\ (ret'.hashs = <<>> \/ Len(ret'.hashs) > AhaLens[Len(AhaLens)])) =>
            /\ ret'.ptr = 0
            /\ aha'.a.backends = aha.a.backends]_vars

\* C25: a branch with more present children than the capacity of the biggest
\* tier is persisted with aha_len = 0, and a later load_aha of the persisted
\* branch (its copy on write) and a later write_aha of the copy complete
C25_OversizedBranchUnindexed ==
    [][/\ (ret'.op = "aha_write" /\ ~panicked' /\ Len(ret'.hashs) > AhaLens[Len(AhaLens)]) =>
                ret'.node.len = 0
       /\ (ret'.op = "aha_load" /\ Len(ret'.node.hashs) > AhaLens[Len(AhaLens)]) => ~panicked'
       /\ (ret'.op = "aha_write" /\ Len(ret'.old.hashs) > AhaLens[Len(AhaLens)]) => ~panicked']_vars

\* C24: a returning commit with a dirty root that leaves a non-empty trie
\* returns a CleanPtr greater than every root identifier returned before and
\* than the CleanPtr of every record written before
C24_RootsIncrease ==
    [][(ret'.op = "commit" /\ ~panicked' /\ root_dptr # None /\ live # EmptyContent) =>
            /\ \A r \in roots : ret'.root > r.root
            /\ \A i \in 1..Len(file) : ret'.root > file[i].cptr]_vars

\* a second non-empty root, after a first one
C24_Witness ==
    /\ ret.op = "commit"
    /\ ~panicked
    /\ ret.root # 0
    /\ \E r \in roots : r.root # 0 /\ r.root < ret.root
    /\ \E r \in roots : r.root = ret.root

\* the offset past the last byte of the records of a node file
RECURSIVE RecordsEnd(_)
RecordsEnd(f) ==
    IF f = <<>> THEN 0
    ELSE LET end == f[Len(f)].cptr + LenPrefix + EncodedLen(f[Len(f)].node)
             before == RecordsEnd(SubSeq(f, 1, Len(f) - 1))
         IN IF end > before THEN end ELSE before

\* C27: in every step of a Merkle (insert, delete, commit, find, a switch to a
\* committed root on the same store or on a new one) the records the node file
\* held stay as they were, every record written starts at or past the end of
\* all the bytes written before it, and the tail does not decrease
C27_NodeFileAppendOnly ==
    [][/\ Len(file') >= Len(file)
       /\ SubSeq(file', 1, Len(file)) = file
       /\ \A i \in (Len(file) + 1)..Len(file') : file'[i].cptr >= RecordsEnd(SubSeq(file', 1, i - 1))
       /\ RecordsEnd(file') >= RecordsEnd(file)]_vars

\* a commit that appended records to a node file that held a root already
C27_Witness ==
    /\ ret.op = "commit"
    /\ ~panicked
    /\ Len(file) > 2
    /\ file[Len(file)].cptr = ret.root
    /\ \E i \in 2..(Len(file) - 1) :
            /\ file[i].cptr \in {r.root : r \in roots}
            /\ file[i].cptr # ret.root

\* C28: whenever Merkle.commit returns, the shared dirty arena is empty and the
\* Merkle has no dirty root, also when the commit follows only deletes of
\* missing keys on a clean trie.
C28_CommitClearsDirtyArena ==
    [][(ret'.op = "commit" /\ ~panicked') => (dirty' = <<>> /\ root_dptr' = None)]_vars

\* the children slots of a node, whatever its type
Slots(node) ==
    CASE node.type = "Branch" -> node.children
      [] node.type = "Short" -> <<node.child>>
      [] OTHER -> <<>>

\* C26: commit processes the dirty nodes reachable from the dirty root children
\* before parents: the worklist starts with the root, every dirty child is in
\* the worklist once, behind its only parent, so it is processed (and its
\* record appended) before the parent and its scratch-map entry is consumed
\* once; the node appended for a parent holds Hash(cptr, item) of the record
\* of each dirty child and no dirty pointer; the root is appended last.
C26_CommitChildrenFirst ==
    [][(ret'.op = "commit" /\ root_dptr # None /\ get_dirty(Cur, root_dptr[1]).type # "None") =>
        LET Ordered(nodes) ==
              LET n == Len(nodes)
                  \* the record appended for the i-th node of the worklist
                  Rec(i) == file'[Len(file) + n + 1 - i]
                  Added(i) == (CHOOSE e \in clean' : e.cptr = Rec(i).cptr).node
                  At(d) == CHOOSE j \in 1..n : nodes[j].dptr = d
              IN /\ ~panicked'
                 /\ n >= 1
                 /\ nodes[1].dptr = root_dptr[1]
                 /\ Len(file') = Len(file) + n
                 /\ \A i \in 1..n :
                       /\ Cardinality(DirtyPtrs(nodes[i].node)) = Len(DirtyChildren(nodes[i].node))
                       /\ \A d \in DirtyPtrs(nodes[i].node) :
                             /\ Cardinality({j \in 1..n : nodes[j].dptr = d}) = 1
                             /\ At(d) > i
                             /\ Rec(At(d)).cptr < Rec(i).cptr
                       /\ \E e \in clean' : e.cptr = Rec(i).cptr
                       /\ Added(i).type = nodes[i].node.type
                       /\ \A m \in 1..Len(Slots(Added(i))) :
                             /\ Slots(Added(i))[m].kind # "Dirty"
                             /\ Slots(nodes[i].node)[m].kind = "Dirty" =>
                                   Slots(Added(i))[m] =
                                       ChildHash(Rec(At(Slots(nodes[i].node)[m].ptr)).cptr,
                                                 Node_hash(Added(At(Slots(nodes[i].node)[m].ptr))))
                 /\ \A j \in 2..n :
                       Cardinality({i \in 1..n : nodes[j].dptr \in DirtyPtrs(nodes[i].node)}) = 1
                 /\ root_cptr' = file'[Len(file')].cptr
                 /\ ret'.root = Rec(1).cptr
        IN Ordered(commit_order(Cur, root_dptr[1]).nodes)]_vars

\* a commit of a batch of two inserts has returned; the root it appended last
\* is reached through a branch that holds the items of two children appended
\* before it
C26_Witness ==
    /\ ret.op = "commit"
    /\ ~panicked
    /\ ret.batch.insert >= 2
    /\ Len(file) >= 5
    /\ root_cptr = file[Len(file)].cptr
    /\ \E e \in clean :
          /\ e.node.type = "Branch"
          /\ Cardinality({m \in 1..(NBRANCH + 1) :
                            /\ e.node.children[m].kind = "Hash"
                            /\ e.node.children[m].ptr < e.cptr}) >= 2

(***************************************************************************)
(* A Merkle that stores values of other sizes: a value whose RLP item is   *)
(* 32 bytes long, and a value and an extra whose node does not encode in   *)
(* 65535 bytes.                                                            *)
(***************************************************************************)
bytes_of(b, n) == [i \in 1..n |-> b]

WideVals == {Value_new(<<1>>, <<>>), Value_new(bytes_of(7, WideLen), <<>>)}

InitWide == Fresh /\ Alone /\ budget = [ops |-> MaxWideOps, reads |-> MaxWideReads]

NextWide ==
    \/ \E k \in Keys, v \in WideVals : Insert(k, v)
    \/ \E k \in Keys : Delete(k)
    \/ Commit
    \/ \E k \in Keys : Find(k)
    \/ \E r \in roots : Reopen(r)

SpecWide == InitWide /\ [][NextWide]_vars

BigKeys == {K1, K2}

BigVals == {Value_new(<<1>>, <<>>), Value_new(bytes_of(255, BigLen), bytes_of(255, BigLen))}

InitBig == Fresh /\ Alone /\ budget = [ops |-> MaxBigOps, reads |-> MaxBigReads]

NextBig ==
    \/ \E k \in BigKeys, v \in BigVals : Insert(k, v)
    \/ Commit
    \/ \E k \in BigKeys : Find(k)
    \/ \E r \in roots : Reopen(r)

SpecBig == InitBig /\ [][NextBig]_vars

\* C23: every reference item held in a Child::Hash slot of a Branch or Short
\* is shorter than 32 bytes or exactly 33 bytes long, the item of a Value
\* child included, for values of any length.
C23_ReferenceItemLengths ==
    LET Fits(node) ==
            \A m \in 1..Len(Slots(node)) :
                Slots(node)[m].kind = "Hash" =>
                    \/ RlpLen(Slots(node)[m].hash) < HASH_SIZE
                    \/ RlpLen(Slots(node)[m].hash) = HASH_SIZE + 1
    IN /\ \A e \in clean : Fits(e.node)
       /\ \A d \in 1..Len(dirty) : Fits(dirty[d])

\* C30: the 16-bit length prefix add_node writes equals the length of the
\* encoding that follows it, so that get_node decodes the node written,
\* for values and extras of any length.
C30_LengthPrefixExact ==
    \A i \in 1..Len(file) :
        /\ file[i].len = EncodedLen(file[i].node)
        /\ get_node(Cur, file[i].cptr) = file[i].node

(***************************************************************************)
(* A Merkle whose clean cache has a budget, next to a Merkle over a store  *)
(* of its own that receives the same operations and whose clean cache      *)
(* admits every node.  The budgets are 0 (NodeStore::new(backend, 0, ..)   *)
(* of the tests) and one that the nodes of a run never fill, so that no    *)
(* entry is ever evicted; the order of eviction is not modelled.           *)
(***************************************************************************)
CleanBudgets == {0, CacheAmple}

InitCache ==
    /\ FreshMerkle
    /\ max_size \in CleanBudgets
    /\ twin = Twin([Cur EXCEPT !.max_size = CacheAmple], EmptyContent, EmptyContent)
    /\ db = None
    /\ Idle
    /\ budget = [ops |-> MaxCacheOps, reads |-> 1]

NextCache ==
    \/ \E k \in Keys, v \in Vals : TwinInsert(k, v, v.extra)
    \/ \E k \in Keys : TwinDelete(k)
    \/ TwinCommit
    \/ TwinReopen

SpecCache == InitCache /\ [][NextCache]_vars

\* C29: for every budget of the clean cache, get_clean of a persisted node
\* returns that node, and find, hash, insert, delete and commit return what
\* they return with a clean cache that admits every node; no operation
\* aborts that completes there.
C29_AnyCleanBudget ==
    /\ panicked = twin.s.panicked
    /\ ~panicked =>
          /\ root_cptr = twin.s.root_cptr
          /\ hash(Cur) = hash(twin.s)
          /\ \A i \in 1..Len(file) : StorageForm(get_clean(Cur, file[i].cptr)) = get_node(Cur, file[i].cptr)
          /\ \A k \in Keys :
                /\ find_run(Cur, k).panic = find_run(twin.s, k).panic
                /\ find_run(Cur, k).res = find_run(twin.s, k).res
                /\ delete_run(Cur, k).s.panicked = delete_run(twin.s, k).s.panicked
                /\ delete_run(Cur, k).removed = delete_run(twin.s, k).removed
                /\ \A v \in Vals : insert(Cur, k, v).panicked = insert(twin.s, k, v).panicked

(***************************************************************************)
(* An AHA with one tier of three entries: branches of two and of three     *)
(* children share its slots, as the branches of 1..4 children share the    *)
(* first tier of the default configuration (db.rs: aha_lens [4, 8, 12, 16]) *)
(***************************************************************************)
LoadLens == <<3>>

ItemDigest2 == make_hash(96, HASH_SIZE + 1)

\* a branch of two children; the same branch with a third child behind them;
\* a branch of two other children
LoadArrays ==
    {<<ItemInline, ItemDigest>>, <<ItemInline, ItemDigest, ItemDigest2>>, <<ItemDigest2, ItemInline>>}

InitLoad ==
    /\ Fresh
    /\ twin = None
    /\ db = None
    /\ disk = None
    /\ pcf = None
    /\ aha \in {Aha(AggregatedHashArray_new(LoadLens, debug), {}, {}, {}, 0, 0) : debug \in BOOLEAN}
    /\ budget = [ops |-> MaxLoadOps, reads |-> 1]

NextLoad ==
    \/ \E hashs \in LoadArrays, old \in {NewBranch} \cup aha.nodes : AhaWrite(hashs, old)
    \/ AhaCommit
    \/ \E node \in aha.nodes : AhaLoad(node)

SpecLoad == InitLoad /\ [][NextLoad]_vars

\* the bytes of the slot of a branch
SlotBytes(a, node) ==
    Flat_read(a.backends[aha_index(a, node.len) + 1], node.ptr,
              a.aha_len[aha_index(a, node.len) + 1] * AHA_ENTRY)

\* the record write_aha stored for the branch
OwnRecord(a, node) == resize(encode_items(node.hashs), a.aha_len[aha_index(a, node.len) + 1] * AHA_ENTRY)

\* the slot of the branch was released and holds the record of another branch
Overwritten(node) ==
    /\ [idx |-> aha_index(aha.a, node.len), ptr |-> node.ptr] \in aha.released
    /\ SlotBytes(aha.a, node) # OwnRecord(aha.a, node)

\* C31 as stated: load_aha leaves the children unchanged or replaces every
\* present Ptr(Clean) child by Hash(cptr, item) with exactly the reference
\* item of that child, and it never does the second with the content of a
\* slot that was recycled and overwritten by another branch.
C31_LoadAhaNeverFromOverwritten ==
    [][(ret'.op = "aha_load" /\ ~panicked') =>
          /\ ret'.val \in {"hit", "miss"}
          /\ ret'.val = "hit" =>
                /\ AHA_read_aha(aha.a, ret'.node.len, ret'.node.ptr).hashs = ret'.node.hashs
                /\ ~Overwritten(ret'.node)]_vars

\* C31 as amended: load_aha leaves the children unchanged or replaces every
\* present Ptr(Clean) child by Hash(cptr, item) with exactly the reference
\* item of that child; with a slot that was recycled and overwritten by
\* another branch it does the second only when that record starts with the
\* entries of this branch.
C31_LoadAhaExact ==
    [][(ret'.op = "aha_load" /\ ~panicked') =>
          /\ ret'.val \in {"hit", "miss"}
          /\ ret'.val = "hit" =>
                /\ ret'.node.len > 0
                /\ AHA_read_aha(aha.a, ret'.node.len, ret'.node.ptr).hashs = ret'.node.hashs
                /\ SubSeq(SlotBytes(aha.a, ret'.node), 1, Len(encode_items(ret'.node.hashs)))
                        = encode_items(ret'.node.hashs)
          /\ (ret'.val = "miss" /\ ret'.node.len > 0) => Overwritten(ret'.node)]_vars

\* load_aha found the slot of the branch overwritten by another branch and
\* left the children to load_children_hash
C31_Witness ==
    /\ ret.op = "aha_load"
    /\ ~panicked
    /\ ret.val = "miss"
    /\ Overwritten(ret.node)

\* the bytes of a record of tier i (from 1)
Stride(i) == aha.a.aha_len[i] * AHA_ENTRY

\* C33: in every tier of capacity C the tail is a multiple of C * 34; a
\* returning write_aha that stored a record returns a multiple of C * 34 below
\* the tail of its tier, and changes no byte outside the C * 34 bytes of its
\* record: the other tiers stay as they were, and the tier keeps every byte
\* outside the record and ends where it ended or where the record ends
C33_RecordsOnStride ==
    [][/\ \A i \in 1..Len(aha'.a.aha_len) : Len(aha'.a.backends[i]) % (aha'.a.aha_len[i] * AHA_ENTRY) = 0
       /\ (ret'.op = "aha_write" /\ ~panicked' /\ ret'.idx < Len(aha.a.aha_len)) =>
            /\ ret'.ptr % Stride(ret'.idx + 1) = 0
            /\ ret'.ptr + Stride(ret'.idx + 1) <= Len(aha'.a.backends[ret'.idx + 1])
            /\ Len(aha'.a.backends[ret'.idx + 1])
                    = Max(Len(aha.a.backends[ret'.idx + 1]), ret'.ptr + Stride(ret'.idx + 1))
            /\ \A i \in 1..Len(aha.a.aha_len) :
                    i # ret'.idx + 1 => aha'.a.backends[i] = aha.a.backends[i]
            /\ \A b \in 1..Len(aha.a.backends[ret'.idx + 1]) :
                    (b <= ret'.ptr \/ b > ret'.ptr + Stride(ret'.idx + 1)) =>
                        aha'.a.backends[ret'.idx + 1][b] = aha.a.backends[ret'.idx + 1][b]
       /\ (ret'.op # "aha_write" \/ panicked' \/ ret'.idx >= Len(aha.a.aha_len)) =>
            aha'.a.backends = aha.a.backends]_vars

\* a release build stored, as the second record of its tier, items whose
\* entries are longer than the record
C33_Witness ==
    /\ aha # None
    /\ ret.op = "aha_write"
    /\ ~panicked
    /\ ret.idx < Len(aha.a.aha_len)
    /\ ret.ptr = aha.a.aha_len[ret.idx + 1] * AHA_ENTRY
    /\ Len(encode_items(ret.hashs)) > aha.a.aha_len[ret.idx + 1] * AHA_ENTRY
    /\ Len(aha.a.backends[ret.idx + 1]) = 2 * (aha.a.aha_len[ret.idx + 1] * AHA_ENTRY)

(***************************************************************************)
(* The AHA under the commits of a Merkle and the open_root of a DB: every  *)
(* commit hands write_aha the changed branches of its batch, each with the *)
(* (aha_len, aha_ptr) its clean original carried, and ends with            *)
(* NodeStore::commit; open_root makes an earlier root the current one.     *)
(* aha.tree holds the branches reachable from the current root, aha.hist   *)
(* the branches of every root committed.                                   *)
(***************************************************************************)
VersionArrays == {<<ItemDigest, ItemDigest>>, <<ItemInline, ItemDigest, ItemDigest2>>}

\* the branches a commit writes, children first: the copy of a branch of the
\* root, a new branch, or a new branch and the copy of the branch above it
Changes(tree) ==
    LET Copies == [hashs : VersionArrays, old : tree]
        News == IF Cardinality(tree) < MaxBranches THEN [hashs : VersionArrays, old : {NewBranch}] ELSE {}
    IN {<<w>> : w \in Copies \cup News} \cup {<<w1, w2>> : w1 \in News, w2 \in Copies}

\* the loop of Merkle::commit over the dirty branches: store.write_aha of each
RECURSIVE write_changes(_, _, _)
write_changes(a, tree, ws) ==
    IF ws = <<>> THEN [a |-> a, tree |-> tree, panic |-> FALSE]
    ELSE LET Written(r) ==
                IF r.panic THEN [a |-> r.a, tree |-> tree, panic |-> TRUE]
                ELSE write_changes(r.a, (tree \ {Head(ws).old}) \cup {r.node}, Tail(ws))
         IN Written(NodeStore_write_aha(a, Head(ws).hashs, Head(ws).old))

InitVersions ==
    /\ Fresh
    /\ twin = None
    /\ db = None
    /\ disk = None
    /\ pcf = None
    /\ aha \in {[a |-> AggregatedHashArray_new(AhaLens, debug), tree |-> {}, hist |-> {{}},
                 commits |-> 0, opens |-> 0] : debug \in BOOLEAN}
    /\ budget = [ops |-> MaxVersionOps, reads |-> 1]

\* Merkle::commit of a batch that changed the branches ws: write_aha of each,
\* then NodeStore::commit, which ends with aha.commit()
VersionCommit(ws) ==
    /\ ~panicked
    /\ aha.commits + aha.opens < budget.ops
    /\ LET Done(r) ==
            /\ panicked' = r.panic
            /\ aha' = IF r.panic THEN [aha EXCEPT !.a = r.a, !.commits = @ + 1]
                      ELSE [aha EXCEPT !.a = AHA_commit(r.a), !.tree = r.tree,
                                       !.hist = @ \cup {r.tree}, !.commits = @ + 1]
            /\ ret' = AhaRet("version_commit", <<>>, NewBranch, 0, 0, NewBranch)
       IN Done(write_changes(aha.a, aha.tree, ws))
    /\ UNCHANGED count
    /\ AhaFrame

\* DB::open_root of a root committed earlier: the AHA is not told
VersionOpen(tree) ==
    /\ ~panicked
    /\ aha.commits + aha.opens < budget.ops
    /\ tree # aha.tree
    /\ aha' = [aha EXCEPT !.tree = tree, !.opens = @ + 1]
    /\ ret' = AhaRet("version_open", <<>>, NewBranch, 0, 0, NewBranch)
    /\ UNCHANGED <<count, panicked>>
    /\ AhaFrame

NextVersions ==
    \/ \E ws \in Changes(aha.tree) : VersionCommit(ws)
    \/ \E tree \in aha.hist : VersionOpen(tree)

SpecVersions == InitVersions /\ [][NextVersions]_vars

\* the slots of tier i (from 1) waiting in its recycle pool
Pool(i) == {aha.a.recycled[i][j] : j \in 1..Len(aha.a.recycled[i])}

\* C32: after every commit no slot of a recycle pool is referenced (aha_len >
\* 0 with that aha_ptr) by a branch reachable from the current root, no slot
\* occurs twice in a recycle pool, and no two branches reachable from the
\* current root reference the same slot, also when the commit follows the
\* open_root of an older root
C32_RecycledSlotsUnreferenced ==
    (ret.op = "version_commit" /\ ~panicked) =>
        /\ \A n \in aha.tree :
                (n.len > 0 /\ aha_index(aha.a, n.len) < Len(aha.a.aha_len)) =>
                    n.ptr \notin Pool(aha_index(aha.a, n.len) + 1)
        /\ \A i \in 1..Len(aha.a.aha_len) : Cardinality(Pool(i)) = Len(aha.a.recycled[i])
        /\ \A n1, n2 \in aha.tree :
                (n1 # n2 /\ n1.len > 0 /\ n2.len > 0
                    /\ aha_index(aha.a, n1.len) = aha_index(aha.a, n2.len)) => n1.ptr # n2.ptr

\* the entry of the clean cache agrees with the record at its CleanPtr: the
\* record decodes to the node, children as CleanPtr only
AgreesWithFile(s, e) == HasRecord(s, e.cptr) /\ get_node(s, e.cptr) = StorageForm(e.node)

\* C34: every node the clean cache holds under cptr agrees with the record at
\* cptr in the node file (variant, path, value, extra, reference item, AHA
\* length and pointer, the CleanPtr of every child), and no insert or delete,
\* failed or not, changes a node the cache holds
C34_CleanCacheAgreesWithFile ==
    [][/\ \A e \in clean' : AgreesWithFile(Succ, e)
       /\ ret'.op \in {"insert", "delete"} =>
            \A e \in clean : \A f \in clean' : e.cptr = f.cptr => e.node = f.node]_vars

\* a delete of a missing key copied clean nodes and left the cache holding a
\* branch with loaded children next to its record
C34_Witness ==
    /\ ret.op = "delete"
    /\ ~ret.ok
    /\ ~panicked
    /\ \E e \in clean :
            /\ e.node.type = "Branch"
            /\ \E i \in 1..(NBRANCH + 1) : e.node.children[i].kind = "Hash"
            /\ AgreesWithFile(Cur, e)

\* the bytes of page pid in the OS file, zeros past its end
OsPage(os, pid) ==
    [i \in 1..PAGE_SIZE |-> IF pid * PAGE_SIZE + i <= Len(os) THEN os[pid * PAGE_SIZE + i] ELSE 0]

\* C35: in every state of a PageCachedFile no page id is both in the clean LRU
\* and in the dirty map, every clean page equals the bytes of the OS file at
\* that page (zeros past its end), the logical tail is not below the persisted
\* tail, which is the length of the OS file, and right after flush the dirty
\* map is empty and the persisted tail equals the logical tail
C35_PageCacheCoherent ==
    pcf # None =>
        /\ \A i \in 1..Len(pcf.f.clean) :
                /\ ~IsDirty(pcf.f, pcf.f.clean[i].pid)
                /\ pcf.f.clean[i].page = OsPage(pcf.f.os, pcf.f.clean[i].pid)
        /\ pcf.f.buff_tail >= pcf.f.file_tail
        /\ pcf.f.file_tail = Len(pcf.f.os)
        /\ ret.op = "file_flush" => (pcf.f.dirty = {} /\ pcf.f.file_tail = pcf.f.buff_tail)

\* a write past the end of a flushed file, into a page next to a clean page
C35_Witness ==
    /\ pcf # None
    /\ ret.op = "file_write"
    /\ pcf.f.file_tail > 0
    /\ pcf.f.buff_tail > pcf.f.file_tail
    /\ pcf.f.clean # <<>>
    /\ pcf.f.dirty # {}

(***************************************************************************)
(* db.rs under two callers: one in DB::get, one in WriteBatch::commit of   *)
(* the same DB.  db.locks holds who owns the Mutex of the Merkle and of    *)
(* the value cache, db.pc where each caller stands; a step runs a caller   *)
(* to the next lock() it has to wait at.  The Mutex of the NodeStore and   *)
(* of the root file are taken and released inside a step.                  *)
(***************************************************************************)
LockCacheSizes == {0, 1, 8}

\* DB::open, and a WriteBatch of it, with the callers outside any call
DB_open_shared(max) ==
    [staging |-> NoStaging, db_value_cache |-> <<>>, max |-> max, root_file |-> <<>>,
     locks |-> [merkle |-> "free", db_value_cache |-> "free"],
     pc |-> [getter |-> "idle", writer |-> "idle"],
     key |-> NoKey, before |-> None]

InitLocks ==
    /\ Fresh
    /\ twin = None
    /\ Idle
    /\ db \in {DB_open_shared(max) : max \in LockCacheSizes}
    /\ budget = [ops |-> MaxLockOps, reads |-> MaxLockReads]

\* the Option<Vec<u8>> a get of the committed content returns
Committed(content, k) == IF content[k] = None THEN None ELSE Some(content[k][1].value)

LockFrame == UNCHANGED <<mpt, live, roots, batch, chash, budget, twin, disk, pcf, aha>>

\* wb.insert(key, value): the staging map belongs to the WriteBatch alone
LockInsert(k, value) ==
    /\ db.pc.writer = "idle"
    /\ WBInsert(k, value)

\* DB::get up to self.merkle.lock(): cache.lock(), and a hit returns
GetLookup(k) ==
    /\ ~panicked
    /\ db.pc.getter = "idle"
    /\ count.other < budget.reads
    /\ db.max > 0 => db.locks.db_value_cache = "free"
    /\ IF db.max > 0 /\ CacheHas(db.db_value_cache, k)
       THEN /\ db' = [db EXCEPT !.db_value_cache = LruCache_get(@, k), !.key = k,
                                !.before = Committed(live, k)]
            /\ ret' = Ret("get", k, CacheAt(db.db_value_cache, k).val, FALSE, 0)
            /\ count' = [count EXCEPT !.other = @ + 1]
       ELSE /\ db' = [db EXCEPT !.pc.getter = "merkle_lock", !.key = k,
                                !.before = Committed(live, k),
                                !.locks.db_value_cache = IF db.max > 0 THEN "getter" ELSE @]
            /\ ret' = Ret("get_miss", k, None, FALSE, 0)
            /\ UNCHANGED count
    /\ UNCHANGED <<dirty, clean, file, root_cptr, root_dptr, panicked, lru, max_size>>
    /\ LockFrame

\* DB::get from self.merkle.lock() on: find, cache.insert, return
GetFind ==
    /\ ~panicked
    /\ db.pc.getter = "merkle_lock"
    /\ db.locks.merkle = "free"
    /\ LET Done(r) ==
                /\ Store(r.s)
                /\ db' = [r.d EXCEPT !.pc.getter = "idle", !.locks.db_value_cache = "free"]
                /\ ret' = Ret("get", db.key, r.res, FALSE, 0)
       IN Done(DB_get(Cur, db, db.key))
    /\ count' = [count EXCEPT !.other = @ + 1]
    /\ LockFrame

\* WriteBatch::commit up to cache.lock(): self.merkle.lock()
CommitLock ==
    /\ ~panicked
    /\ db.pc.writer = "idle"
    /\ NOps < budget.ops
    /\ db.locks.merkle = "free"
    /\ db' = [db EXCEPT !.pc.writer = "cache_lock", !.locks.merkle = "writer"]
    /\ ret' = Ret("wb_commit_lock", NoKey, None, FALSE, 0)
    /\ UNCHANGED <<dirty, clean, file, root_cptr, root_dptr, panicked, lru, max_size, count>>
    /\ LockFrame

\* WriteBatch::commit from cache.lock() on: the drain loop, merkle.commit, the
\* flush of the node store, the record of the root file
CommitDrain ==
    /\ ~panicked
    /\ db.pc.writer = "cache_lock"
    /\ db.max > 0 => db.locks.db_value_cache = "free"
    /\ \E order \in DrainOrders(db) :
          LET Done(r, content) ==
                /\ Store(r.s)
                /\ db' = [r.d EXCEPT !.pc.writer = "idle", !.locks.merkle = "free"]
                /\ ret' = [Ret("wb_commit", NoKey, None, FALSE, r.s.root_cptr) EXCEPT !.batch = batch]
                /\ live' = IF r.s.panicked THEN live ELSE content
                /\ mpt' = IF r.s.panicked THEN mpt ELSE MPT_from(content)
                /\ roots' = IF r.s.panicked THEN roots
                            ELSE roots \cup {Root(r.s.root_cptr, content, hash(r.s))}
                /\ chash' = IF r.s.panicked THEN chash ELSE hash(r.s)
          IN Done(WriteBatch_commit(Cur, db, order), StagedOver(db, live))
    /\ count' = [count EXCEPT !.commit = @ + 1]
    /\ batch' = NoBatch
    /\ UNCHANGED <<budget, twin, disk, pcf, aha>>

NextLocks ==
    \/ \E k \in Keys, value \in DBVals : LockInsert(k, value)
    \/ \E k \in Keys : GetLookup(k)
    \/ GetFind
    \/ CommitLock
    \/ CommitDrain

SpecLocks == InitLocks /\ [][NextLocks]_vars

\* DB::get waits at self.merkle.lock()
GetWaits == db.pc.getter = "merkle_lock" /\ db.locks.merkle # "free"

\* WriteBatch::commit waits at cache.lock()
CommitWaits == db.pc.writer = "cache_lock" /\ db.max > 0 /\ db.locks.db_value_cache # "free"

STATE_ROOT_RECORD == 40

\* the budgets of the cache of root hashes, in entries
RootCacheSizes == {1, 2, 4}

Roots_contains(c, h) == \E i \in 1..Len(c) : c[i].hash = h

Roots_remove(c, h) == SelectSeq(c, LAMBDA e : e.hash # h)

\* LruCache::insert, whose Result statedb.rs drops
Roots_insert(c, max, h, cptr) ==
    IF max = 0 THEN c
    ELSE LET Fit(c1) == Append(IF Len(c1) >= max THEN Tail(c1) ELSE c1, [hash |-> h, cptr |-> cptr])
         IN Fit(Roots_remove(c, h))

\* LruCache::get(..).cloned()
Roots_get(c, h) ==
    IF Roots_contains(c, h) THEN Some(c[CHOOSE i \in 1..Len(c) : c[i].hash = h].cptr) ELSE None

\* the cache after LruCache::get: the entry becomes the most recently used
Roots_touch(c, h) ==
    IF Roots_contains(c, h)
    THEN Append(Roots_remove(c, h), c[CHOOSE i \in 1..Len(c) : c[i].hash = h])
    ELSE c

\* root_file.tail()
Roots_tail(r) == STATE_ROOT_RECORD * Len(r.root_file)

\* StateDBRoots::new over a root file: the last record is cached and the scan
\* starts below it
StateDBRoots_new(root_file, max) ==
    IF STATE_ROOT_RECORD * Len(root_file) < STATE_ROOT_RECORD
    THEN [roots |-> <<>>, root_file |-> root_file, cur_cptr |-> 0, max |-> max]
    ELSE [roots |-> Roots_insert(<<>>, max, root_file[Len(root_file)].hash, root_file[Len(root_file)].cptr),
          root_file |-> root_file,
          cur_cptr |-> STATE_ROOT_RECORD * Len(root_file) - STATE_ROOT_RECORD,
          max |-> max]

\* the loop of get_root_ptr: the records below cur_cptr, newest first, each
\* inserted into the cache, up to the one that holds the hash
RECURSIVE Roots_scan(_, _)
Roots_scan(r, root_hash) ==
    IF ~(r.cur_cptr > 0) THEN r
    ELSE LET Read(cur, rec) ==
                LET Inserted(r1) == IF rec.hash = root_hash THEN r1 ELSE Roots_scan(r1, root_hash)
                IN Inserted([r EXCEPT !.cur_cptr = cur,
                                  !.roots = Roots_insert(@, r.max, rec.hash, rec.cptr)])
         IN Read(r.cur_cptr - STATE_ROOT_RECORD,
                 r.root_file[(r.cur_cptr - STATE_ROOT_RECORD) \div STATE_ROOT_RECORD + 1])

\* StateDBRoots::get_root_ptr: the StateDBRoots it leaves behind and the
\* Option<CleanPtr> it returns
get_root_ptr(r, root_hash) ==
    LET Done(r1) ==
            [r |-> [r1 EXCEPT !.cur_cptr = IF @ = 0 THEN Roots_tail(r1) ELSE @,
                              !.roots = Roots_touch(@, root_hash)],
             res |-> Roots_get(r1.roots, root_hash)]
    IN Done(IF Roots_contains(r.roots, root_hash) THEN r ELSE Roots_scan(r, root_hash))

\* StateDBRoots::add_root_ptr: the record appended and flushed, the entry cached
add_root_ptr(r, root_hash, cptr) ==
    [r EXCEPT !.root_file = Append(@, [hash |-> root_hash, cptr |-> cptr]),
              !.roots = Roots_insert(@, r.max, root_hash, cptr)]

\* the root hashes of the commits, and one that no commit has
RootHashes == {Keccak256(RlpStr(<<i>>)) : i \in 1..3}

AbsentHash == Keccak256(RlpStr(<<0>>))

RootsRet(op, h, res) ==
    [op |-> op, key |-> NoKey, val |-> res, ok |-> FALSE, root |-> 0, batch |-> NoBatch, hash |-> h]

InitRoots ==
    /\ Fresh
    /\ twin = None
    /\ Idle
    /\ db \in {[r |-> StateDBRoots_new(<<>>, max), adds |-> 0, gets |-> 0] : max \in RootCacheSizes}
    /\ budget = [ops |-> MaxRootOps, reads |-> MaxRootReads]

RootsFrame ==
    UNCHANGED <<dirty, clean, file, root_cptr, root_dptr, panicked, lru, max_size, mpt, live, roots,
                count, batch, chash, budget, twin, disk, pcf, aha>>

\* StateDB::commit: roots.add_root_ptr(merkle.hash(), cptr), cptr the tail of
\* the node file before the root was written, which grows with every commit
RootsAdd(h) ==
    /\ db.adds < budget.ops
    /\ \A i \in 1..Len(db.r.root_file) : db.r.root_file[i].hash # h
    /\ db' = [db EXCEPT !.r = add_root_ptr(@, h, Len(db.r.root_file) + 1), !.adds = @ + 1]
    /\ ret' = RootsRet("add_root_ptr", h, None)
    /\ RootsFrame

\* StateDB::open_root_hash: roots.get_root_ptr(root_hash)
RootsGet(h) ==
    /\ db.gets < budget.reads
    /\ LET Done(g) ==
            /\ db' = [db EXCEPT !.r = g.r, !.gets = @ + 1]
            /\ ret' = RootsRet("get_root_ptr", h, g.res)
       IN Done(get_root_ptr(db.r, h))
    /\ RootsFrame

\* drop and StateDB::open: StateDBRoots::new over the same root file
RootsReopen ==
    /\ db.adds < budget.ops
    /\ db.r.root_file # <<>>
    /\ db' = [db EXCEPT !.r = StateDBRoots_new(db.r.root_file, db.r.max), !.adds = @ + 1]
    /\ ret' = RootsRet("roots_new", AbsentHash, None)
    /\ RootsFrame

NextRoots ==
    \/ \E h \in RootHashes : RootsAdd(h)
    \/ \E h \in RootHashes \cup {AbsentHash} : RootsGet(h)
    \/ RootsReopen

SpecRoots == InitRoots /\ [][NextRoots]_vars

\* the CleanPtr the root file records with a hash
Recorded(root_file, h) ==
    {root_file[i].cptr : i \in {j \in 1..Len(root_file) : root_file[j].hash = h}}

\* C39: get_root_ptr(h) returns the CleanPtr recorded with h for every root
\* hash h the root journal records, after any lookups of present and absent
\* hashes, commits and evictions from the cache of root hashes, and none for
\* a hash that was never recorded
C39_RootPtrFound ==
    ret.op = "get_root_ptr" =>
        IF Recorded(db.r.root_file, ret.hash) = {} THEN ret.val = None
        ELSE ret.val # None /\ ret.val[1] \in Recorded(db.r.root_file, ret.hash)

(***************************************************************************)
(* statedb.rs: StateDB.  The main Merkle maps an address to the account    *)
(* (value) and the CleanPtr of the root of its storage trie (extra); the   *)
(* storage tries are Merkles over the same NodeStore.  StateDB::commit is  *)
(* taken step by step: the Merkle calls of its two loops one at a time,    *)
(* then the writes to the root file and to the node file page by page.     *)
(* The account stands abridged to its nonce and one byte for its storage   *)
(* root; balance, code hash, snapshots and the cache of storage values     *)
(* (state_clean) are left out.                                             *)
(***************************************************************************)
Addrs == {K1, K2}

SlotKeys == {K2, K3}

\* the storage values: an empty value deletes the slot
SlotVals == {<<>>, <<7>>}

Nonces == {1}

\* rlp::encode of a u64 below 65536
rlp_u64(n) ==
    IF n = 0 THEN <<128>>
    ELSE IF n < 128 THEN <<n>>
    ELSE IF n < 256 THEN <<129, n>>
    ELSE <<130, n \div 256, n % 256>>

\* rlp::decode::<u64>
rlp_u64_decode(b) ==
    IF b[1] < 128 THEN b[1]
    ELSE IF b[1] = 128 THEN 0
    ELSE IF b[1] = 129 THEN b[2]
    ELSE b[2] * 256 + b[3]

\* rlp::encode of a byte string shorter than 56 bytes
rlp_bytes(b) == IF Len(b) = 1 /\ b[1] < 128 THEN b ELSE <<128 + Len(b)>> \o b

\* StateObject::new(account, rootptr)
StateObject_new(nonce, rootptr) ==
    [nonce |-> nonce, rootptr |-> rootptr, state_dirty |-> [sk \in SlotKeys |-> None], deleted |-> FALSE]

\* rlp::encode(&obj.account): the nonce, and a byte for the storage root
Account_encode(o) == rlp_u64(o.nonce) \o <<o.rootptr % 256>>

\* StateObject::new(rlp::decode(&val.value), rlp::decode(&val.extra))
StateObject_decode(val) == StateObject_new(rlp_u64_decode(val.value), rlp_u64_decode(val.extra))

\* the cache of root hashes holds every root of a run
RootCacheAmple == 4

\* StateDB::open on an empty directory; obj_cache is whether the budget of
\* obj_clean admits an object (obj_cache_size)
StateDB_open(obj_cache) ==
    [obj_dirty |-> [addr \in Addrs |-> None], obj_clean |-> [addr \in Addrs |-> None],
     obj_cache |-> obj_cache, r |-> StateDBRoots_new(<<>>, RootCacheAmple),
     sub |-> None, subs |-> 0]

\* StateDB::ensure_dirty_obj: the store and the StateDB it leaves behind
ensure_dirty_obj(s, d, addr) ==
    IF d.obj_dirty[addr] # None THEN [s |-> s, d |-> d]
    ELSE IF d.obj_clean[addr] # None
    THEN [s |-> s, d |-> [d EXCEPT !.obj_dirty[addr] = d.obj_clean[addr], !.obj_clean[addr] = None]]
    ELSE LET Found(r) ==
                [s |-> IF r.panic THEN Panic(r.s) ELSE r.s,
                 d |-> [d EXCEPT !.obj_dirty[addr] =
                            Some(IF r.res = None THEN StateObject_new(0, 0)
                                 ELSE StateObject_decode(r.res[1]))]]
         IN Found(find_run(s, addr))

\* the steps of StateDB::commit, in the order of the code: the two loops and
\* merkle.commit(), roots.add_root_ptr (write, then flush), store.flush()
state_commit_steps == <<"trie", "root_write", "root_flush", "node_flush">>

state_step_after(pc) ==
    LET i == CHOOSE j \in 1..Len(state_commit_steps) : state_commit_steps[j] = pc
    IN IF i = Len(state_commit_steps) THEN "idle" ELSE state_commit_steps[i + 1]

StateRet(op, addr) == Ret(op, addr, None, FALSE, 0)

InitState ==
    /\ Fresh
    /\ twin = None
    /\ pcf = None
    /\ aha = None
    /\ db \in {StateDB_open(obj_cache) : obj_cache \in BOOLEAN}
    /\ disk = NoDisk
    /\ budget = [ops |-> MaxStateOps, reads |-> 0]

StateGhost == UNCHANGED <<mpt, live, roots, batch, chash, budget, twin, pcf, aha>>

\* StateDB::set_state(addr, key, val): the store and the StateDB it leaves behind
set_state(s, d, addr, sk, val) ==
    LET Done(r) ==
            [s |-> r.s,
             d |-> IF r.s.panicked THEN r.d ELSE [r.d EXCEPT !.obj_dirty[addr][1].state_dirty[sk] = Some(val)]]
    IN Done(ensure_dirty_obj(s, d, addr))

\* StateDB::set_nonce(addr, nonce): the store and the StateDB it leaves behind
set_nonce(s, d, addr, nonce) ==
    LET Done(r) ==
            [s |-> r.s,
             d |-> IF r.s.panicked THEN r.d ELSE [r.d EXCEPT !.obj_dirty[addr][1].nonce = nonce]]
    IN Done(ensure_dirty_obj(s, d, addr))

\* a setter between two commits
StateSetter(addr) ==
    /\ disk.pc = "idle"
    /\ ~panicked
    /\ NOps < budget.ops
    /\ ret' = StateRet("state_set", addr)
    /\ count' = [count EXCEPT !.insert = @ + 1]
    /\ UNCHANGED disk
    /\ StateGhost

StateSetState(addr, sk, val) ==
    /\ StateSetter(addr)
    /\ LET Done(r) == Store(r.s) /\ db' = r.d
       IN Done(set_state(Cur, db, addr, sk, val))

StateSetNonce(addr, nonce) ==
    /\ StateSetter(addr)
    /\ LET Done(r) == Store(r.s) /\ db' = r.d
       IN Done(set_nonce(Cur, db, addr, nonce))

\* StateDB::remove_account(addr)
StateRemove(addr) ==
    /\ disk.pc = "idle"
    /\ ~panicked
    /\ NOps < budget.ops
    /\ db.obj_dirty[addr] # None \/ db.obj_clean[addr] # None
    /\ db' = IF db.obj_dirty[addr] # None
             THEN [db EXCEPT !.obj_dirty[addr] = Some([@[1] EXCEPT !.deleted = TRUE])]
             ELSE [db EXCEPT !.obj_dirty[addr] = Some([db.obj_clean[addr][1] EXCEPT !.deleted = TRUE]),
                             !.obj_clean[addr] = None]
    /\ ret' = StateRet("state_remove", addr)
    /\ count' = [count EXCEPT !.delete = @ + 1]
    /\ UNCHANGED disk
    /\ MerkleFrame
    /\ StateGhost

\* StateDB::commit entered: the merkle lock taken
StateCommit ==
    /\ disk.pc = "idle"
    /\ ~panicked
    /\ NOps < budget.ops
    /\ disk' = [disk EXCEPT !.pc = "trie"]
    /\ db' = [db EXCEPT !.subs = 0]
    /\ ret' = StateRet("step", NoKey)
    /\ count' = [count EXCEPT !.commit = @ + 1]
    /\ MerkleFrame
    /\ StateGhost

\* the objects that the first loop has yet to give a subtree
SubtreesLeft(d) ==
    {addr \in Addrs : /\ d.obj_dirty[addr] # None
                      /\ ~d.obj_dirty[addr][1].deleted
                      /\ \E sk \in SlotKeys : d.obj_dirty[addr][1].state_dirty[sk] # None}

\* a second loop that may run ahead of the subtrees still to come
subtrees_done_early(d) == d.sub = None

\* the first loop is through: the second loop starts after it
subtrees_done(d) == d.sub = None /\ SubtreesLeft(d) = {}

\* the store with the subtree as its Merkle
SubCur == [Cur EXCEPT !.root_cptr = db.sub[1].root_cptr, !.root_dptr = db.sub[1].root_dptr]

\* the store after a call of the subtree: the main Merkle keeps its root
StoreSub(s) == Store([s EXCEPT !.root_cptr = root_cptr, !.root_dptr = root_dptr])

StateStep == count' = [count EXCEPT !.other = @ + 1] /\ UNCHANGED disk /\ StateGhost

\* the first loop: Merkle::new(self.store.clone(), obj.rootptr)
StateSubtreeNew(addr) ==
    /\ disk.pc = "trie"
    /\ ~panicked
    /\ db.sub = None
    /\ addr \in SubtreesLeft(db)
    /\ db' = [db EXCEPT !.sub = Some([addr |-> addr, root_cptr |-> db.obj_dirty[addr][1].rootptr,
                                      root_dptr |-> None])]
    /\ ret' = StateRet("step", addr)
    /\ MerkleFrame
    /\ StateStep

\* the first loop: one pair of state_dirty.drain() inserted into, or deleted
\* from, the subtree
StateSubtreePut(sk) ==
    /\ disk.pc = "trie"
    /\ ~panicked
    /\ db.sub # None
    /\ db.obj_dirty[db.sub[1].addr][1].state_dirty[sk] # None
    /\ LET Done(s, val) ==
            /\ StoreSub(s)
            /\ db' = [db EXCEPT !.sub[1].root_cptr = s.root_cptr, !.sub[1].root_dptr = s.root_dptr,
                                !.obj_dirty[db.sub[1].addr][1].state_dirty[sk] = None]
           Put(val) ==
                IF Len(val) > 0 THEN Done(insert(SubCur, sk, Value_new(rlp_bytes(val), <<>>)), val)
                ELSE Done(delete(SubCur, sk), val)
       IN Put(db.obj_dirty[db.sub[1].addr][1].state_dirty[sk][1])
    /\ ret' = StateRet("subtree_put", sk)
    /\ StateStep

\* the first loop: subtree.commit(), obj.rootptr = cptr
StateSubtreeCommit ==
    /\ disk.pc = "trie"
    /\ ~panicked
    /\ db.sub # None
    /\ \A sk \in SlotKeys : db.obj_dirty[db.sub[1].addr][1].state_dirty[sk] = None
    /\ LET Done(s) ==
            /\ StoreSub(s)
            /\ db' = [db EXCEPT !.sub = None, !.subs = @ + 1,
                                !.obj_dirty[db.sub[1].addr][1].rootptr = s.root_cptr]
       IN Done(commit(SubCur))
    /\ ret' = StateRet("subtree_commit", db.sub[1].addr)
    /\ StateStep

\* the second loop: one object of obj_dirty.drain() deleted from, or inserted
\* into, the main Merkle, and moved to obj_clean
StateAccount(addr) ==
    /\ disk.pc = "trie"
    /\ ~panicked
    /\ subtrees_done(db)
    /\ db.obj_dirty[addr] # None
    /\ LET Done(s, o) ==
            /\ Store(s)
            /\ db' = [db EXCEPT !.obj_dirty[addr] = None,
                                !.obj_clean[addr] = IF ~o.deleted /\ db.obj_cache THEN Some(o) ELSE @]
           Put(o) ==
                IF o.deleted THEN Done(delete(Cur, addr), o)
                ELSE Done(insert(Cur, addr, Value_new(Account_encode(o), rlp_u64(o.rootptr))), o)
       IN Put(db.obj_dirty[addr][1])
    /\ ret' = StateRet("state_account", addr)
    /\ StateStep

\* merkle.commit() once both loops are through
StateMerkleCommit ==
    /\ disk.pc = "trie"
    /\ ~panicked
    /\ subtrees_done(db)
    /\ \A addr \in Addrs : db.obj_dirty[addr] = None
    /\ Store(commit(Cur))
    /\ disk' = [disk EXCEPT !.pc = IF panicked' THEN "idle" ELSE state_step_after("trie")]
    /\ ret' = StateRet("step", NoKey)
    /\ count' = [count EXCEPT !.other = @ + 1]
    /\ UNCHANGED db
    /\ StateGhost

\* the tail of the root file, in bytes
StateRootTail == Roots_tail(db.r)

\* roots.add_root_ptr(merkle.hash(), cptr): the record into the dirty page of
\* the root file
StateRootWrite ==
    /\ disk.pc = "root_write"
    /\ db' = [db EXCEPT !.r = add_root_ptr(@, hash(Cur), root_cptr)]
    /\ disk' = [disk EXCEPT !.pc = state_step_after("root_write")]
    /\ ret' = StateRet("step", NoKey)
    /\ UNCHANGED count
    /\ MerkleFrame
    /\ StateGhost

\* root_file.flush() of add_root_ptr: one dirty page written to the medium
StateRootPage(p) ==
    /\ disk.pc = "root_flush"
    /\ p \in DirtyPages(disk.root_len, StateRootTail) \ disk.root_pages
    /\ disk' = [disk EXCEPT !.root_pages = @ \cup {p}]
    /\ ret' = StateRet("step", NoKey)
    /\ UNCHANGED <<db, count>>
    /\ MerkleFrame
    /\ StateGhost

\* root_file.flush() of add_root_ptr: set_len(buff_tail)
StateRootLen ==
    /\ disk.pc = "root_flush"
    /\ DirtyPages(disk.root_len, StateRootTail) \subseteq disk.root_pages
    /\ disk' = [disk EXCEPT !.root_len = StateRootTail, !.root_pages = {},
                            !.pc = state_step_after("root_flush")]
    /\ ret' = StateRet("step", NoKey)
    /\ UNCHANGED <<db, count>>
    /\ MerkleFrame
    /\ StateGhost

\* store.flush(): set_len(buff_tail) once every dirty page is written, and
\* the commit returns
StateNodeLen ==
    /\ disk.pc = "node_flush"
    /\ DirtyPages(disk.node_len, backend_tail(Cur)) \subseteq disk.node_pages
    /\ disk' = [disk EXCEPT !.node_len = backend_tail(Cur), !.node_pages = {},
                            !.pc = state_step_after("node_flush")]
    /\ ret' = StateRet(IF state_step_after("node_flush") = "idle" THEN "state_commit" ELSE "step", NoKey)
    /\ UNCHANGED <<db, count>>
    /\ MerkleFrame
    /\ StateGhost

\* StateDB::open_root(root) on the root of an earlier commit
StateOpenRoot(root) ==
    /\ disk.pc = "idle"
    /\ ~panicked
    /\ NOps < budget.ops
    /\ root_cptr # root
    /\ Store(Merkle_new(Cur, root))
    /\ db' = [db EXCEPT !.obj_dirty = [addr \in Addrs |-> None], !.obj_clean = [addr \in Addrs |-> None]]
    /\ ret' = StateRet("state_open_root", NoKey)
    /\ count' = [count EXCEPT !.delete = @ + 1]
    /\ UNCHANGED disk
    /\ StateGhost

NextState ==
    \/ \E addr \in Addrs, sk \in SlotKeys, val \in SlotVals : StateSetState(addr, sk, val)
    \/ \E addr \in Addrs, nonce \in Nonces : StateSetNonce(addr, nonce)
    \/ \E addr \in Addrs : StateRemove(addr)
    \/ StateCommit
    \/ \E addr \in Addrs : StateSubtreeNew(addr)
    \/ \E sk \in SlotKeys : StateSubtreePut(sk)
    \/ StateSubtreeCommit
    \/ \E addr \in Addrs : StateAccount(addr)
    \/ StateMerkleCommit
    \/ StateRootWrite
    \/ \E p \in DirtyPages(disk.root_len, StateRootTail) : StateRootPage(p)
    \/ StateRootLen
    \/ \E p \in DirtyPages(disk.node_len, backend_tail(Cur)) : StepNodePage(p)
    \/ StateNodeLen
    \/ \E i \in 1..Len(db.r.root_file) : StateOpenRoot(db.r.root_file[i].cptr)

SpecState == InitState /\ [][NextState]_vars

\* the records of the root file that are whole on the medium
StateDiskRecords(d, root_file) ==
    {root_file[i] : i \in {j \in 1..Len(root_file) :
                        Durable(d.root_len, d.root_pages, STATE_ROOT_RECORD * (j - 1), STATE_ROOT_RECORD * j)}}

\* C38: StateDB::commit flushes the node store before it appends the new root
\* record to the root journal and flushes it: at every point of a commit every
\* record that the root journal on the medium holds names a root (0 is the
\* empty trie) whose node records are all in the node file on the medium
C38_StateJournalRootsOnDisk ==
    /\ \A rec \in StateDiskRecords(disk, db.r.root_file) : rec.cptr = 0 \/ OnDisk(Cur, disk, rec.cptr)
    /\ disk.pc \in {"root_write", "root_flush"} => DirtyPages(disk.node_len, backend_tail(Cur)) = {}

\* the slots of the dirty arena reachable from a DirtyPtr, the ones past the
\* end of the arena included
RECURSIVE DirtySlots(_, _)
DirtySlots(arena, dptr) ==
    {dptr} \cup (IF dptr < Len(arena) /\ arena[dptr + 1].type # "None"
                 THEN UNION {DirtySlots(arena, c) : c \in DirtyPtrs(arena[dptr + 1])}
                 ELSE {})

\* every slot reachable from the root exists and holds a node; the root slot
\* of a trie that its deletes have emptied holds none
DirtyClosed(arena, root) ==
    root # None =>
        \A p \in DirtySlots(arena, root[1]) : p < Len(arena) /\ (arena[p + 1].type # "None" \/ p = root[1])

\* the dirty root of the storage subtree in progress
SubRoot == IF db.sub = None THEN None ELSE db.sub[1].root_dptr

\* C37: whenever a Merkle has a dirty root, every DirtyPtr reachable from it
\* indexes an existing slot of the shared dirty arena that holds a node of that
\* Merkle: the commit of a storage subtree of a StateDB, or of a Merkle that
\* open_root replaced, never clears or reuses the arena while the main Merkle
\* has uncommitted changes, and the main Merkle never does while a subtree has
C37_DirtyRootsInArena ==
    /\ DirtyClosed(dirty, root_dptr)
    /\ DirtyClosed(dirty, SubRoot)
    /\ (root_dptr # None /\ SubRoot # None) =>
            DirtySlots(dirty, root_dptr[1]) \cap DirtySlots(dirty, SubRoot[1]) = {}
    /\ (ret.op \in {"subtree_commit", "state_open_root"} /\ ~panicked) => root_dptr = None

\* the main Merkle holds uncommitted accounts in the arena that the commits of
\* two storage subtrees of the same StateDB::commit have cleared before
C37_Witness ==
    /\ disk.pc = "trie"
    /\ db.subs = 2
    /\ root_dptr # None
    /\ Cardinality(DirtySlots(dirty, root_dptr[1])) > 1
    /\ ~panicked
====
